---------------------------- MODULE Spec2Model ----------------------------
(***************************************************************************)
(* A model of bot4.py: the alert store and its matching pass               *)
(* (AlertManager, check_alerts), the settings store (UserSettings), the    *)
(* subscriber list, the periodic broadcast (send_price_update run by the   *)
(* job queue or by a chat's Refresh) and the ten-state dialog              *)
(* (ConversationHandler of main).                                          *)
(*                                                                         *)
(* Granularity.  The program is one asyncio event loop: the code between   *)
(* two awaits that really suspend runs atomically.  The awaits that        *)
(* suspend are the network sends (bot.send_message in check_alerts and in  *)
(* send_message_with_menu); yfinance's history() is a blocking call and    *)
(* the other awaited coroutines never yield.  A send_price_update          *)
(* coroutine is therefore modelled as a process whose steps run from one   *)
(* suspended send to the next.  The dispatcher handles one update at a     *)
(* time (Application's default), so a dialog handler never overlaps        *)
(* another handler; the jobs of the job queue overlap handlers and each    *)
(* other at the suspended sends.  A dialog handler's replies are taken to  *)
(* return: an exception there leaves the repository's code.                *)
(*                                                                         *)
(* Texts.  A message text is a sequence of tokens: a token is one          *)
(* character (digits, "-", ".", ",", " ") or an atom standing for a run    *)
(* of other characters (a button caption, a symbol name).  Splitting,      *)
(* stripping and number parsing are computed on the tokens.  Prices are    *)
(* kept in tenths (12 is 1.2).                                             *)
(*                                                                         *)
(* Environment.  Every fetch returns a price or nothing, every send of a   *)
(* pass returns or raises, every save_alerts succeeds or raises; `world`   *)
(* says whether the run allows the failures.  Chat 1 talks to the bot;     *)
(* chat 2 is known to it from the files of an earlier run.  The files      *)
(* themselves are not modelled: the stores are the dicts in memory.        *)
(*                                                                         *)
(* Specifications.  Spec: the alert dialog, the job and the passes, with   *)
(* every interleaving and failure.  SpecSeq: the same with the passes one  *)
(* after another.  SpecLive: a steady world with fair jobs.  SpecIsolate:  *)
(* the passes during an outage of the provider.  SpecDialog:               *)
(* the whole dialog, without the job.  SpecSettings: the settings dialog   *)
(* and the rescheduling.                                                   *)
(***************************************************************************)
EXTENDS Integers, Sequences, FiniteSets, TLC

\* ------------------------------------------------------------------ bounds
\* Alerts created in one run of the program (alert ids are 1..MaxAlerts).
MaxAlerts == 2
\* Periodic jobs the job queue may hold (main's one plus the rescheduled ones).
MaxJobs == 3

Chats == {1, 2}
AlertIds == 1..MaxAlerts

\* ------------------------------------------------------------ constants
DefaultFreq == 30
MinFreq == 15
MaxFreq == 1440
MainInterval == 1800
SecondsPerMinute == 60

\* The known table (two of its eight rows; every row is treated alike).
FOREX_SYMBOLS == {"EUR/USD", "GBP/USD"}

\* Conversation states (END is ConversationHandler.END: no conversation).
States ==
  {"MENU", "SETTINGS", "ALERTS", "SYMBOL_SELECTION", "SET_ALERT_PRICE",
   "SET_ALERT_TYPE", "SET_TIMEZONE", "SET_UPDATE_FREQ", "SET_INDICATORS",
   "SET_RISK"}
END == "END"

\* --------------------------------------------------------------- texts
Digits == {"0", "1", "2", "3", "4", "5", "6", "7", "8", "9"}

DigitVal(d) ==
  CASE d = "0" -> 0 [] d = "1" -> 1 [] d = "2" -> 2 [] d = "3" -> 3
    [] d = "4" -> 4 [] d = "5" -> 5 [] d = "6" -> 6 [] d = "7" -> 7
    [] d = "8" -> 8 [] d = "9" -> 9

\* The absent value.  A number that may be absent (a parse that may raise
\* ValueError, a scratch field that may be unset) is a sequence: <<n>>, or
\* <<>> when there is none.
None == "None"

AllDigits(w) == w # <<>> /\ \A i \in 1..Len(w) : w[i] \in Digits

RECURSIVE Decimal(_)
Decimal(w) ==
  IF w = <<>> THEN 0 ELSE 10 * Decimal(SubSeq(w, 1, Len(w) - 1)) + DigitVal(w[Len(w)])

\* str.strip() / the whitespace int() and float() skip around a literal.
RECURSIVE LStrip(_)
LStrip(w) == IF w # <<>> /\ Head(w) = " " THEN LStrip(Tail(w)) ELSE w
RECURSIVE RStrip(_)
RStrip(w) ==
  IF w # <<>> /\ w[Len(w)] = " " THEN RStrip(SubSeq(w, 1, Len(w) - 1)) ELSE w
Strip(w) == RStrip(LStrip(w))

\* int(text): optional sign, then digits only.
ParseInt(text) ==
  LET w == Strip(text)
      neg == w # <<>> /\ Head(w) = "-"
      body == IF w # <<>> /\ Head(w) \in {"-", "+"} THEN Tail(w) ELSE w
  IN IF AllDigits(body) THEN <<IF neg THEN 0 - Decimal(body) ELSE Decimal(body)>>
     ELSE <<>>

\* The position of the first "." of w, or 0.
RECURSIVE DotAt(_, _)
DotAt(w, i) == IF i > Len(w) THEN 0 ELSE IF w[i] = "." THEN i ELSE DotAt(w, i + 1)

\* float(text), in tenths: optional sign, digits, optionally "." and digits
\* (one side may be empty); digits after the first decimal are dropped, the
\* texts of the model carry at most one.
ParseFloat(text) ==
  LET w == Strip(text)
      neg == w # <<>> /\ Head(w) = "-"
      body == IF w # <<>> /\ Head(w) \in {"-", "+"} THEN Tail(w) ELSE w
      dot == DotAt(body, 1)
      ip == IF dot = 0 THEN body ELSE SubSeq(body, 1, dot - 1)
      fp == IF dot = 0 THEN <<>> ELSE SubSeq(body, dot + 1, Len(body))
      ok == /\ ip # <<>> \/ fp # <<>>
            /\ ip = <<>> \/ AllDigits(ip)
            /\ fp = <<>> \/ AllDigits(fp)
      mag == 10 * Decimal(ip) + (IF fp = <<>> THEN 0 ELSE DigitVal(fp[1]))
  IN IF ok THEN <<IF neg THEN 0 - mag ELSE mag>> ELSE <<>>

\* text.split(sep): the pieces between the separators, empty pieces kept.
RECURSIVE SplitOn(_, _)
SplitOn(text, sep) ==
  LET RECURSIVE At(_)
      At(i) == IF i > Len(text) THEN 0 ELSE IF text[i] = sep THEN i ELSE At(i + 1)
      k == At(1)
  IN IF k = 0 THEN <<text>>
     ELSE <<SubSeq(text, 1, k - 1)>> \o SplitOn(SubSeq(text, k + 1, Len(text)), sep)

RECURSIVE DropEmpty(_)
DropEmpty(ws) ==
  IF ws = <<>> THEN <<>>
  ELSE IF Head(ws) = <<>> THEN DropEmpty(Tail(ws)) ELSE <<Head(ws)>> \o DropEmpty(Tail(ws))

\* text.split(): split on whitespace, no empty pieces.
SplitWs(text) == DropEmpty(SplitOn(text, " "))

RECURSIVE MapStrip(_)
MapStrip(ws) == IF ws = <<>> THEN <<>> ELSE <<Strip(Head(ws))>> \o MapStrip(Tail(ws))

\* [s.strip() for s in text.split(',')]
CommaList(text) == MapStrip(SplitOn(text, ","))

\* str.upper() and str.lower() on the atoms of the model.
UpperTok(t) ==
  CASE t = "rsi" -> "RSI" [] t = "atr" -> "ATR" [] t = "macd" -> "MACD"
    [] t = "eur/usd" -> "EUR/USD" [] t = "gbp/usd" -> "GBP/USD"
    [] OTHER -> t
LowerTok(t) ==
  CASE t = "Above" -> "above" [] t = "Below" -> "below"
    [] t = "Low" -> "low" [] t = "Medium" -> "medium" [] t = "High" -> "high"
    [] OTHER -> t
RECURSIVE MapUpper(_)
MapUpper(w) == IF w = <<>> THEN <<>> ELSE <<UpperTok(Head(w))>> \o MapUpper(Tail(w))

\* Button captions, without their emoji.
Refresh == <<"Refresh">>
Analysis == <<"Analysis">>
AlertsBtn == <<"Alerts">>
SettingsBtn == <<"Settings">>
SymbolsBtn == <<"Symbols">>
StopBtn == <<"Stop">>
Back == <<"Back">>
NewAlert == <<"New Alert">>
DeletePrefix == <<"Delete", " ">>
OptTimezone == <<"1. Timezone">>
OptFrequency == <<"2. Frequency">>
OptIndicators == <<"3. Indicators">>
OptNotifications == <<"4. Notifications">>
OptRisk == <<"5. Risk">>
OptSymbols == <<"6. Symbols">>
StartCmd == <<"/start">>
StopCmd == <<"/stop">>

\* filters.COMMAND: the text starts with a bot command.
IsCommand(text) == text \in {StartCmd, StopCmd}

\* text.startswith(prefix)
StartsWith(text, prefix) ==
  Len(text) >= Len(prefix) /\ SubSeq(text, 1, Len(prefix)) = prefix

\* ---------------------------------------------------------------- state
VARIABLES
  alertKeys,   \* AlertManager.alerts: its keys, in insertion order
  alerts,      \* AlertManager.alerts: chat -> list of alert objects (ids)
  obj,         \* the alert dicts, by object identity
  nAlerts,     \* alerts created so far
  settings,    \* UserSettings.settings: chat -> override record
  chat_ids,    \* the subscriber list (CHAT_IDS_FILE), as load_chat_ids reads it
  conv,        \* ConversationHandler: chat -> dialog state
  user_data,   \* context.user_data: chat -> scratch dict
  jobs,        \* job_queue: the interval (seconds) of each repeating job
  run,         \* the send_price_update coroutines: 0 the handler's, j job j's
  sent,        \* alert -> chats its notifications were delivered to, in order
  ev,          \* the update just handled
  reply,       \* the replies (update.message.reply_text) it was given, in order
  world,       \* what the network does during the run: "any", "steady",
               \* or an outage of the price provider (Outages)
  price_cache, \* PriceDataCache: its data and last_updated dicts
  cache_file,  \* DATA_CACHE_FILE
  now,         \* datetime.now(), in minutes
  cstep,       \* the cache operation just done
  advice,      \* the recommendation just made, with the data it is for
  lock,        \* the lock flag of each store
  task,        \* the coroutines that write the stores: where each one is
  doc          \* each store's document: its version in memory and on disk

vars ==
  <<alertKeys, alerts, obj, nAlerts, settings, chat_ids, conv, user_data,
    jobs, run, sent, ev, reply, world, price_cache, cache_file, now, cstep, advice,
    lock, task, doc>>

\* The dialogs and the passes, and the snapshot cache.
bot_vars ==
  <<alertKeys, alerts, obj, nAlerts, settings, chat_ids, conv, user_data,
    jobs, run, sent, ev, reply, world, advice>>
cache_vars == <<price_cache, cache_file, now, cstep>>
lock_vars == <<lock, task, doc>>

RunIds == 0..MaxJobs

\* ---------------------------------------------------------------- dicts
EmptyDict == [k \in {} |-> None]
Get(d, k) == IF k \in DOMAIN d THEN d[k] ELSE None
Put(d, k, v) == (k :> v) @@ d
Pop(d, k) == [x \in DOMAIN d \ {k} |-> d[x]]

\* ------------------------------------------------------------- settings
default_settings ==
  [timezone |-> "UTC", update_freq |-> DefaultFreq,
   indicators |-> <<"RSI", "ATR", "MACD">>, notification |-> TRUE,
   risk_appetite |-> "medium", symbols |-> <<"EUR/USD">>]

SettingFields == DOMAIN default_settings

\* {**default_settings, **self.settings.get(str(chat_id), {})}
get_user_settings(c) == settings[c] @@ default_settings

\* update_setting that stores nothing.
update_setting_none(c, f, v) == settings

\* update_setting that forgets the chat's other overrides.
update_setting_replace(c, f, v) == [settings EXCEPT ![c] = (f :> v)]

\* The settings dict after update_setting(c, f, v).
update_setting(c, f, v) == [settings EXCEPT ![c] = Put(@, f, v)]

\* ---------------------------------------------------------- alert store
\* An alert dict not yet created.
NoAlert ==
  [symbol |-> None, type |-> None, price |-> 0, created |-> 0, active |-> FALSE,
   owner |-> 0]

\* add_alert that stores the alert inactive.
add_alert_inactive(c, symbol, alert_type, price) ==
  LET id == nAlerts + 1
      keys == IF \E i \in 1..Len(alertKeys) : alertKeys[i] = c
              THEN alertKeys ELSE Append(alertKeys, c)
  IN [keys |-> keys,
      lists |-> [alerts EXCEPT ![c] = Append(@, id)],
      heap |-> [obj EXCEPT ![id] =
                  [symbol |-> symbol, type |-> LowerTok(alert_type),
                   price |-> IF price = <<>> THEN 0 ELSE price[1], created |-> id,
                   active |-> FALSE, owner |-> c]],
      n |-> id, ok |-> TRUE]

\* The store after add_alert(c, symbol, alert_type, price), and what it
\* returns.  The chat's key is made first; float(None) then raises and is
\* caught, leaving the empty list.  `created` is the creation stamp.
add_alert(c, symbol, alert_type, price) ==
  LET id == nAlerts + 1
      keys == IF \E i \in 1..Len(alertKeys) : alertKeys[i] = c
              THEN alertKeys ELSE Append(alertKeys, c)
  IN IF price = <<>>
     THEN [keys |-> keys, lists |-> alerts, heap |-> obj, n |-> nAlerts,
           ok |-> FALSE]
     ELSE [keys |-> keys,
           lists |-> [alerts EXCEPT ![c] = Append(@, id)],
           heap |-> [obj EXCEPT ![id] =
                       [symbol |-> symbol, type |-> LowerTok(alert_type),
                        price |-> price[1], created |-> id, active |-> TRUE,
                        owner |-> c]],
           n |-> id, ok |-> TRUE]

get_user_alerts(c) == alerts[c]

\* remove_alert(c, alert_index): whether it deletes, and the lists after it.
RemoveOk(c, alert_index) == 0 <= alert_index /\ alert_index < Len(alerts[c])
\* remove_alert that forgets the whole list.
remove_alert_all(c, alert_index) ==
  IF RemoveOk(c, alert_index) THEN [alerts EXCEPT ![c] = <<>>] ELSE alerts

\* remove_alert that counts an index out of range from the end of the
\* list.
remove_alert_wrapping(c, alert_index) ==
  IF RemoveOk(c, alert_index)
  THEN [alerts EXCEPT ![c] =
          SubSeq(@, 1, alert_index) \o SubSeq(@, alert_index + 2, Len(@))]
  ELSE [alerts EXCEPT ![c] = SubSeq(@, 1, Len(@) - 1)]

remove_alert(c, alert_index) ==
  IF RemoveOk(c, alert_index)
  THEN [alerts EXCEPT ![c] =
          SubSeq(@, 1, alert_index) \o SubSeq(@, alert_index + 2, Len(@))]
  ELSE alerts

\* The condition of check_alerts on one alert dict.
Matches(al, symbol, price) ==
  /\ al.active
  /\ al.symbol = symbol
  /\ \/ al.type = "above" /\ price >= al.price
     \/ al.type = "below" /\ price <= al.price

\* ------------------------------------------------- the matching pass
\* What get_forex_price returns for each symbol during one step: <<p>>, a
\* snapshot whose current price is p tenths, or <<>>, None (the provider
\* returned nothing or raised).
Prices == {12, 13}
Markets == [FOREX_SYMBOLS -> {<<p>> : p \in Prices} \cup {<<>>}]

\* How many save_alerts calls of a step succeed before one raises; a step
\* makes at most one per chat.
SaveOutcomes == 0..Cardinality(Chats)

\* The alerts that are in some chat's list.
Listed ==
  {a \in AlertIds : \E c \in Chats : \E i \in 1..Len(alerts[c]) : alerts[c][i] = a}

\* The inner loop of check_alerts over the copied list, from position
\* `from`: the position of the next alert whose condition holds, or 0.
RECURSIVE NextMatch(_, _, _, _, _)
NextMatch(o, copy, from, symbol, price) ==
  IF from > Len(copy) THEN 0
  ELSE IF Matches(o[copy[from]], symbol, price) THEN from
  ELSE NextMatch(o, copy, from + 1, symbol, price)

\* check_alerts from position `from` of chat number ki's copied list, up to
\* its next suspended send or its end.  After a chat's list: save_alerts,
\* which raises once okSaves is used up; then the dict iterator, which
\* raises if the dict has grown since the loop began.  An exception ends the
\* pass in the except clause ("aborted").
RECURSIVE ScanChats(_, _, _, _, _, _, _, _)
ScanChats(o, symbol, price, ki, copy, from, used, okSaves) ==
  LET j == NextMatch(o, copy, from, symbol, price) IN
  IF j # 0 THEN [kind |-> "send", ki |-> ki, copy |-> copy, ai |-> j]
  ELSE IF okSaves = 0 THEN [kind |-> "aborted", ki |-> 0, copy |-> <<>>, ai |-> 0]
  ELSE IF Len(alertKeys) # used
       THEN [kind |-> "aborted", ki |-> 0, copy |-> <<>>, ai |-> 0]
  ELSE IF ki = Len(alertKeys) THEN [kind |-> "done", ki |-> 0, copy |-> <<>>, ai |-> 0]
  ELSE ScanChats(o, symbol, price, ki + 1, alerts[alertKeys[ki + 1]], 1, used,
                 okSaves - 1)

\* check_alerts(current_price, symbol) from its first line.
check_alerts(o, symbol, price, okSaves) ==
  IF alertKeys = <<>> THEN [kind |-> "done", ki |-> 0, copy |-> <<>>, ai |-> 0]
  ELSE ScanChats(o, symbol, price, 1, alerts[alertKeys[1]], 1, Len(alertKeys),
                 okSaves)

\* ------------------------------------------------ send_price_update
\* A coroutine: pc is idle, "send" (suspended in check_alerts' send_message
\* for alert copy[ai] of chat alertKeys[ki]) or "menu" (suspended in
\* send_message_with_menu, symbol and price still its locals).  who/ret: the
\* chat whose handler awaits it and the state that handler returns.
\* History of the pass: start, the alerts whose condition held when it
\* began; fired, those it has notified; last, how the pass that has just
\* ended ended ("done", or "aborted" in the except clause).
IdleRun ==
  [pc |-> "idle", who |-> 0, ret |-> None, cid |-> 0, rest |-> <<>>,
   syms |-> <<>>, symbol |-> None, price |-> 0, ki |-> 0, used |-> 0,
   copy |-> <<>>, ai |-> 0, start |-> {}, fired |-> {}, last |-> "none"]

\* Advance in which a symbol without data ends the pass (as if the failure
\* reached the except clause of send_price_update).
RECURSIVE AdvanceAborting(_, _, _, _, _, _)
AdvanceAborting(base, cid, syms, rest, m, okSaves) ==
  IF syms = <<>>
  THEN IF rest = <<>> THEN IdleRun
       ELSE AdvanceAborting(base, Head(rest), get_user_settings(Head(rest)).symbols,
                            Tail(rest), m, okSaves)
  ELSE LET s == Head(syms) IN
       IF m[s] = <<>> THEN IdleRun
       ELSE LET price == m[s][1]
                res == check_alerts(obj, s, price, okSaves)
                st == {a \in Listed : Matches(obj[a], s, price)}
                at == [base EXCEPT !.cid = cid, !.rest = rest, !.syms = Tail(syms),
                                   !.symbol = s, !.price = price, !.start = st,
                                   !.fired = {}]
            IN IF res.kind = "send"
               THEN [at EXCEPT !.pc = "send", !.ki = res.ki, !.used = Len(alertKeys),
                               !.copy = res.copy, !.ai = res.ai, !.last = "none"]
               ELSE [at EXCEPT !.pc = "menu", !.price = 0, !.last = res.kind]

\* The loops of send_price_update from the top of the symbol loop of
\* recipient cid, up to the next suspended send: a symbol without data is
\* skipped; check_alerts runs on the others and is followed by the send of
\* the analysis message.
RECURSIVE Advance(_, _, _, _, _, _)
Advance(base, cid, syms, rest, m, okSaves) ==
  IF syms = <<>>
  THEN IF rest = <<>> THEN IdleRun
       ELSE Advance(base, Head(rest), get_user_settings(Head(rest)).symbols,
                    Tail(rest), m, okSaves)
  ELSE LET s == Head(syms) IN
       IF m[s] = <<>> THEN Advance(base, cid, Tail(syms), rest, m, okSaves)
       ELSE LET price == m[s][1]
                res == check_alerts(obj, s, price, okSaves)
                st == {a \in Listed : Matches(obj[a], s, price)}
                at == [base EXCEPT !.cid = cid, !.rest = rest, !.syms = Tail(syms),
                                   !.symbol = s, !.price = price, !.start = st,
                                   !.fired = {}]
            IN IF res.kind = "send"
               THEN [at EXCEPT !.pc = "send", !.ki = res.ki, !.used = Len(alertKeys),
                               !.copy = res.copy, !.ai = res.ai, !.last = "none"]
               ELSE [at EXCEPT !.pc = "menu", !.price = 0, !.last = res.kind]

\* send_price_update(context, chat_id) from its first line.
send_price_update(base, recipients, m, okSaves) ==
  IF recipients = <<>> THEN IdleRun
  ELSE Advance(base, Head(recipients), get_user_settings(Head(recipients)).symbols,
               Tail(recipients), m, okSaves)

\* The elements of a list.
Range(list) == {list[i] : i \in 1..Len(list)}

\* list.remove(x) that removes nothing.
RemoveNone(list, x) == list

\* list.remove(x): the list without the first x.
RECURSIVE Remove(_, _)
Remove(list, x) ==
  IF list = <<>> THEN <<>>
  ELSE IF Head(list) = x THEN Tail(list)
  ELSE <<Head(list)>> \o Remove(Tail(list), x)

\* save_chat_ids: the file holds list(set(chat_ids)), every id once.  The
\* order of a set is not the list's: the file is kept in increasing order
\* and a pass draws the order it reads from Orders.
save_chat_ids(list) ==
  CHOOSE q \in [1..Cardinality(Range(list)) -> Range(list)] :
    \A i, j \in 1..Cardinality(Range(list)) : i < j => q[i] < q[j]

\* The orders in which load_chat_ids may list the subscribers (save_chat_ids
\* writes list(set(chat_ids)), whose order is the set's).
Orders(S) ==
  {q \in UNION {[1..n -> S] : n \in {Cardinality(S)}} :
     \A i, j \in 1..Cardinality(S) : i # j => q[i] # q[j]}

\* The update a step handled: the chat and its text (chat 0: no update, a
\* step of a job or of a suspended coroutine).
Msg(c, text) == [chat |-> c, text |-> text]
NoMsg == Msg(0, <<>>)

\* The subscriber list after stop: the chat is removed and the list saved
\* if it holds the chat.
Unsubscribed(c) ==
  IF c \in Range(chat_ids) THEN save_chat_ids(Remove(chat_ids, c)) ELSE chat_ids

\* A filter that looks the tokens up in upper case.
RECURSIVE ValidSymbolsAnyCase(_)
ValidSymbolsAnyCase(ws) ==
  IF ws = <<>> THEN <<>>
  ELSE IF Len(Head(ws)) = 1 /\ UpperTok(Head(ws)[1]) \in FOREX_SYMBOLS
       THEN <<UpperTok(Head(ws)[1])>> \o ValidSymbolsAnyCase(Tail(ws))
       ELSE ValidSymbolsAnyCase(Tail(ws))

\* [s for s in symbols if s in FOREX_SYMBOLS], as a list of symbol names.
RECURSIVE ValidSymbols(_)
ValidSymbols(ws) ==
  IF ws = <<>> THEN <<>>
  ELSE IF Len(Head(ws)) = 1 /\ Head(ws)[1] \in FOREX_SYMBOLS
       THEN <<Head(ws)[1]>> \o ValidSymbols(Tail(ws))
       ELSE ValidSymbols(Tail(ws))

\* context.user_data.get('alert_setup')
AlertSetup(c) == "alert_setup" \in DOMAIN user_data[c] /\ user_data[c]["alert_setup"]

Above == <<"Above">>
Below == <<"Below">>

\* The zones pytz knows (those of the keyboard).
KnownTimezones ==
  {"UTC", "America/New_York", "Asia/Tokyo", "Europe/London", "Australia/Sydney"}

\* A piece of text as one string: an atom is itself, the empty piece is "",
\* any other run of tokens is no name the program knows.
WordStr(w) == IF w = <<>> THEN "" ELSE IF Len(w) = 1 THEN w[1] ELSE "?"

RECURSIVE MapWordStr(_)
MapWordStr(ws) ==
  IF ws = <<>> THEN <<>> ELSE <<WordStr(Head(ws))>> \o MapWordStr(Tail(ws))

\* A valid list that also lets the risk label through.
LooseIndicators == {"RSI", "ATR", "MACD", "High"}

ValidIndicators == {"RSI", "ATR", "MACD"}

RiskLabels == {<<"Low">>, <<"Medium">>, <<"High">>}

\* ------------------------------------------------------------- replies
\* One reply_text call: its text (the constant part), the keyboard of its
\* reply_markup ("none": sent without reply_markup), and for the alert
\* list the number of its "Delete" rows.
Say(text, keyboard) == [text |-> text, keyboard |-> keyboard, rows |-> 0]

show_alerts_menu(list) ==
  [text |-> "Your Alerts:", keyboard |-> "alerts", rows |-> Len(list)]
show_settings_menu == Say("Settings", "settings")
show_symbol_selection == Say("Current Symbols:", "symbols")
\* The reply of cancel.
BackToMenu == Say("Back to main menu", "menu")

\* The replies the handler of update m sends, in order, in the state the
\* update finds.  The messages of a pass are sends of the bot, not replies.
Replies(m) ==
  LET c == m.chat
      text == m.text
      state == conv[c]
      words == SplitWs(text)
      n == ParseInt(words[Len(words)])
      valid_symbols == ValidSymbols(CommaList(text))
      price == ParseFloat(text)
      freq == ParseInt(text)
      indicators == MapUpper(MapWordStr(CommaList(text)))
      added == add_alert(c, Get(user_data[c], "alert_symbol"), LowerTok(text[1]),
                         IF "alert_price" \in DOMAIN user_data[c]
                         THEN <<user_data[c]["alert_price"]>> ELSE <<>>)
  IN
  IF c = 0 THEN <<>>
  ELSE IF text = StartCmd THEN <<Say("Real-time updates activated!", "menu")>>
  ELSE IF text = StopCmd \/ (state = "MENU" /\ text = StopBtn) THEN
    IF c \in Range(chat_ids) THEN <<Say("Unsubscribed.", "remove")>> ELSE <<>>
  ELSE IF state = "MENU" THEN
    CASE text = AlertsBtn -> <<show_alerts_menu(alerts[c])>>
      [] text = SettingsBtn -> <<show_settings_menu>>
      [] text = SymbolsBtn -> <<show_symbol_selection>>
      [] OTHER -> <<>>
  ELSE IF state = "ALERTS" THEN
    IF text = Back THEN <<BackToMenu>>
    ELSE IF text = NewAlert THEN <<show_symbol_selection>>
    ELSE IF StartsWith(text, DeletePrefix) THEN
      IF n = <<>> THEN <<Say("Invalid selection", "none")>>
      ELSE (IF RemoveOk(c, n[1] - 1) THEN <<Say("Alert deleted!", "none")>> ELSE <<>>)
           \o <<show_alerts_menu(remove_alert(c, n[1] - 1)[c])>>
    ELSE <<>>
  ELSE IF state = "SETTINGS" THEN
    CASE text = Back -> <<BackToMenu>>
      [] text = OptTimezone -> <<Say("Enter timezone", "timezones")>>
      [] text = OptFrequency -> <<Say("Enter frequency (15-1440 min):", "freqs")>>
      [] text = OptIndicators -> <<Say("Enter indicators", "indicators")>>
      [] text = OptNotifications -> <<show_settings_menu>>
      [] text = OptRisk -> <<Say("Select risk level:", "risks")>>
      [] text = OptSymbols -> <<show_symbol_selection>>
      [] OTHER -> <<>>
  ELSE IF state = "SYMBOL_SELECTION" THEN
    IF text = Back THEN
      IF AlertSetup(c) THEN <<show_alerts_menu(alerts[c])>> ELSE <<show_settings_menu>>
    ELSE IF valid_symbols = <<>> THEN <<Say("Invalid symbol(s). Try again:", "none")>>
    ELSE IF AlertSetup(c) THEN <<Say("Enter alert price", "back")>>
    ELSE <<Say("Symbols updated", "none"), BackToMenu>>
  ELSE IF state = "SET_ALERT_PRICE" THEN
    IF text = Back THEN <<show_alerts_menu(alerts[c])>>
    ELSE IF price # <<>> THEN <<Say("Select alert type:", "types")>>
    ELSE <<Say("Enter a valid number:", "none")>>
  ELSE IF state = "SET_ALERT_TYPE" THEN
    IF text = Back THEN <<show_alerts_menu(alerts[c])>>
    ELSE IF text \in {Above, Below} THEN
      (IF added.ok THEN <<Say("Alert set", "none")>> ELSE <<>>) \o <<BackToMenu>>
    ELSE <<>>
  ELSE IF state = "SET_TIMEZONE" THEN
    IF text = Back THEN <<show_settings_menu>>
    ELSE IF WordStr(text) \in KnownTimezones
    THEN <<Say("Timezone set", "none"), BackToMenu>>
    ELSE <<Say("Invalid timezone:", "none")>>
  ELSE IF state = "SET_UPDATE_FREQ" THEN
    IF text = Back THEN <<show_settings_menu>>
    ELSE IF freq # <<>> /\ MinFreq <= freq[1] /\ freq[1] <= MaxFreq
    THEN <<Say("Frequency set", "none"), BackToMenu>>
    ELSE <<Say("Enter 15-1440:", "none")>>
  ELSE IF state = "SET_INDICATORS" THEN
    IF text = Back THEN <<show_settings_menu>>
    ELSE IF \A i \in 1..Len(indicators) : indicators[i] \in ValidIndicators
    THEN <<Say("Indicators set", "none"), BackToMenu>>
    ELSE <<Say("Use RSI, ATR, MACD:", "none")>>
  ELSE IF state = "SET_RISK" THEN
    IF text = Back THEN <<show_settings_menu>>
    ELSE IF text \in RiskLabels THEN <<Say("Risk set", "none"), BackToMenu>>
    ELSE <<>>
  ELSE <<>>

\* The step handled update m and gave it its replies.
Handled(m) ==
  /\ ev' = m
  /\ reply' = Replies(m)
  /\ world' = world
  /\ UNCHANGED <<cache_vars, advice, lock_vars>>

\* During an outage the provider returns nothing (an empty history, or
\* yfinance raises) for the symbols that are down, throughout the run, and
\* the steady price for the others; sends and saves succeed or raise.
Outages == {"no EUR/USD", "no GBP/USD", "no data"}
Down ==
  CASE world = "no EUR/USD" -> {"EUR/USD"}
    [] world = "no GBP/USD" -> {"GBP/USD"}
    [] world = "no data" -> FOREX_SYMBOLS
    [] OTHER -> {}

\* In a steady world every fetch returns this price (the highest), and
\* every send and save succeeds.
SteadyPrice == CHOOSE p \in Prices : \A q \in Prices : q <= p

\* The fetch results a step can tell apart: symbols outside `rel` are not
\* fetched by it.
Fetches(rel) ==
  {m \in Markets :
     /\ \A s \in FOREX_SYMBOLS \ rel : m[s] = <<>>
     /\ world = "steady" => \A s \in rel : m[s] = <<SteadyPrice>>
     /\ world \in Outages =>
          \A s \in rel : m[s] = IF s \in Down THEN <<>> ELSE <<SteadyPrice>>}
\* The save outcomes a step can tell apart: an empty store is never saved.
Saves ==
  IF alertKeys = <<>> \/ world = "steady" THEN {Cardinality(Chats)}
  ELSE SaveOutcomes

RECURSIVE SymbolsOf(_)
SymbolsOf(cs) ==
  IF cs = <<>> THEN {}
  ELSE {get_user_settings(Head(cs)).symbols[i] :
          i \in 1..Len(get_user_settings(Head(cs)).symbols)} \cup SymbolsOf(Tail(cs))

\* The dialog state of the chat whose handler awaited coroutine r, once the
\* coroutine has returned.
ConvAfter(r, new) ==
  IF r = 0 /\ new.pc = "idle" /\ run[0].who # 0
  THEN [conv EXCEPT ![run[0].who] = run[0].ret] ELSE conv

\* A repeating job fires: send_price_update(context) with no chat.
Tick(j) ==
  /\ j \in 1..Len(jobs)
  /\ run[j].pc = "idle"
  /\ \E rs \in Orders(Range(chat_ids)) : \E m \in Fetches(SymbolsOf(rs)), okSaves \in Saves :
       run' = [run EXCEPT ![j] = send_price_update(IdleRun, rs, m, okSaves)]
  /\ Handled(NoMsg)
  /\ UNCHANGED <<alertKeys, alerts, obj, nAlerts, settings, chat_ids, conv,
                 user_data, jobs, sent>>

\* AfterSend without `alert['active'] = False`.
AfterSendKeepsActive(r, ok, okSaves) ==
  LET me == run[r]
      a == me.copy[me.ai]
      res == IF ok
             THEN ScanChats(obj, me.symbol, me.price, me.ki, me.copy, me.ai + 1,
                            me.used, okSaves)
             ELSE [kind |-> "aborted", ki |-> 0, copy |-> <<>>, ai |-> 0]
  IN [heap |-> obj,
      notes |-> IF ok THEN [sent EXCEPT ![a] = Append(@, alertKeys[me.ki])] ELSE sent,
      run |-> IF res.kind = "send"
              THEN [me EXCEPT !.ki = res.ki, !.copy = res.copy, !.ai = res.ai]
              ELSE [me EXCEPT !.pc = "menu", !.price = 0, !.ki = 0, !.used = 0,
                              !.copy = <<>>, !.ai = 0, !.last = res.kind]]

\* The rest of check_alerts after the send for alert copy[ai] returned
\* (ok: active is set to False, the loops go on) or raised (the except
\* clause), up to the next suspended send.
AfterSend(r, ok, okSaves) ==
  LET me == run[r]
      a == me.copy[me.ai]
      o == IF ok THEN [obj EXCEPT ![a].active = FALSE] ELSE obj
      fired == IF ok THEN me.fired \cup {a} ELSE me.fired
      res == IF ok
             THEN ScanChats(o, me.symbol, me.price, me.ki, me.copy, me.ai + 1,
                            me.used, okSaves)
             ELSE [kind |-> "aborted", ki |-> 0, copy |-> <<>>, ai |-> 0]
  IN [heap |-> o,
      notes |-> IF ok THEN [sent EXCEPT ![a] = Append(@, alertKeys[me.ki])] ELSE sent,
      run |-> IF res.kind = "send"
              THEN [me EXCEPT !.ki = res.ki, !.copy = res.copy, !.ai = res.ai,
                              !.fired = fired]
              ELSE [me EXCEPT !.pc = "menu", !.price = 0, !.ki = 0, !.used = 0,
                              !.copy = <<>>, !.ai = 0, !.fired = fired,
                              !.last = res.kind]]

\* A coroutine suspended in check_alerts' send resumes: the send returned.
SendReturns(r) ==
  /\ run[r].pc = "send"
  /\ \E okSaves \in Saves :
       LET res == AfterSend(r, TRUE, okSaves) IN
       /\ obj' = res.heap
       /\ sent' = res.notes
       /\ run' = [run EXCEPT ![r] = res.run]
  /\ Handled(NoMsg)
  /\ UNCHANGED <<alertKeys, alerts, nAlerts, settings, chat_ids, conv, user_data,
                 jobs>>

\* A coroutine suspended in check_alerts' send resumes: the send raised.
SendRaises(r) ==
  /\ run[r].pc = "send"
  /\ world = "any" \/ world \in Outages
  /\ run' = [run EXCEPT ![r] = AfterSend(r, FALSE, 0).run]
  /\ Handled(NoMsg)
  /\ UNCHANGED <<alertKeys, alerts, obj, nAlerts, settings, chat_ids, conv,
                 user_data, jobs, sent>>

\* A coroutine suspended in send_message_with_menu resumes (the send
\* returned, or raised and was logged): on to the next symbol or recipient.
MenuSent(r) ==
  /\ run[r].pc = "menu"
  /\ LET me == run[r]
         base == [me EXCEPT !.symbol = None, !.price = 0, !.start = {},
                            !.fired = {}, !.last = "none"]
     IN \E m \in Fetches({me.syms[i] : i \in 1..Len(me.syms)} \cup SymbolsOf(me.rest)),
           okSaves \in Saves :
          LET new == Advance(base, me.cid, me.syms, me.rest, m, okSaves) IN
          /\ run' = [run EXCEPT ![r] = new]
          /\ conv' = ConvAfter(r, new)
  /\ Handled(NoMsg)
  /\ UNCHANGED <<alertKeys, alerts, obj, nAlerts, settings, chat_ids, user_data,
                 jobs, sent>>
\* ------------------------------------------------------- the handlers
\* ------------------------------------------------------------ the dialog
\* The handler's coroutine is free: the dispatcher takes the next update.
Free == run[0].pc = "idle"

\* A handler that leaves everything but the dialog state and the scratch.
Quiet ==
  UNCHANGED <<alertKeys, alerts, obj, nAlerts, settings, chat_ids, jobs, run, sent>>

Goto(c, state) == conv' = [conv EXCEPT ![c] = state]

\* A handler awaits send_price_update(context, chat_id), then returns ret.
AwaitUpdate(c, ret, text) ==
  \E m \in Fetches(SymbolsOf(<<c>>)), okSaves \in Saves :
    LET new == send_price_update([IdleRun EXCEPT !.who = c, !.ret = ret], <<c>>,
                                 m, okSaves)
    IN /\ run' = [run EXCEPT ![0] = new]
       /\ conv' = IF new.pc = "idle" THEN [conv EXCEPT ![c] = ret] ELSE conv
       /\ Handled(Msg(c, text))

\* /start, the entry point: taken when the chat has no conversation.
start(c) ==
  /\ Free
  /\ conv[c] = END
  /\ chat_ids' = IF c \in Range(chat_ids) THEN chat_ids
                  ELSE save_chat_ids(Append(chat_ids, c))
  /\ AwaitUpdate(c, "MENU", StartCmd)
  /\ UNCHANGED <<alertKeys, alerts, obj, nAlerts, settings, user_data, jobs, sent>>

\* /stop, the fallback: taken in every state of a conversation.
stop(c) ==
  /\ Free
  /\ conv[c] # END
  /\ chat_ids' = Unsubscribed(c)
  /\ Goto(c, END)
  /\ Handled(Msg(c, StopCmd))
  /\ UNCHANGED <<alertKeys, alerts, obj, nAlerts, settings, user_data, jobs, run,
                 sent>>

handle_menu(c, text) ==
  /\ Free
  /\ conv[c] = "MENU"
  /\ ~IsCommand(text)
  /\ IF text \in {Refresh, Analysis}
     THEN /\ AwaitUpdate(c, "MENU", text)
          /\ UNCHANGED <<alertKeys, alerts, obj, nAlerts, settings, chat_ids,
                         user_data, jobs, sent>>
     ELSE /\ Handled(Msg(c, text))
          /\ Goto(c, CASE text = AlertsBtn -> "ALERTS"
                       [] text = SettingsBtn -> "SETTINGS"
                       [] text = SymbolsBtn -> "SYMBOL_SELECTION"
                       [] text = StopBtn -> END
                       [] OTHER -> "MENU")
          /\ chat_ids' = IF text = StopBtn THEN Unsubscribed(c) ELSE chat_ids
          /\ UNCHANGED <<alertKeys, alerts, obj, nAlerts, settings, user_data,
                         jobs, run, sent>>

\* cancel that goes back to the settings menu.
cancel_to_settings == "SETTINGS"

\* cancel that goes to the alert list.
cancel_to_alerts == "ALERTS"

\* cancel: back to the main menu.
cancel == "MENU"

handle_alerts(c, text) ==
  /\ Free
  /\ conv[c] = "ALERTS"
  /\ ~IsCommand(text)
  /\ Handled(Msg(c, text))
  /\ IF text = Back THEN
       /\ Goto(c, cancel)
       /\ UNCHANGED <<alerts, user_data>>
     ELSE IF text = NewAlert THEN
       /\ user_data' = [user_data EXCEPT ![c] = Put(@, "alert_setup", TRUE)]
       /\ Goto(c, "SYMBOL_SELECTION")
       /\ UNCHANGED alerts
     ELSE IF StartsWith(text, DeletePrefix) THEN
       LET words == SplitWs(text)
           n == ParseInt(words[Len(words)])
       IN /\ alerts' = IF n = <<>> THEN alerts ELSE remove_alert(c, n[1] - 1)
          /\ Goto(c, "ALERTS")
          /\ UNCHANGED user_data
     ELSE
       /\ Goto(c, "ALERTS")
       /\ UNCHANGED <<alerts, user_data>>
  /\ UNCHANGED <<alertKeys, obj, nAlerts, settings, chat_ids, jobs, run, sent>>

handle_settings(c, text) ==
  /\ Free
  /\ conv[c] = "SETTINGS"
  /\ ~IsCommand(text)
  /\ Handled(Msg(c, text))
  /\ Goto(c, CASE text = Back -> cancel
               [] text = OptTimezone -> "SET_TIMEZONE"
               [] text = OptFrequency -> "SET_UPDATE_FREQ"
               [] text = OptIndicators -> "SET_INDICATORS"
               [] text = OptRisk -> "SET_RISK"
               [] text = OptSymbols -> "SYMBOL_SELECTION"
               [] OTHER -> "SETTINGS")
  /\ settings' = IF text = OptNotifications
                 THEN update_setting(c, "notification",
                                     ~get_user_settings(c).notification)
                 ELSE settings
  /\ UNCHANGED <<alertKeys, alerts, obj, nAlerts, chat_ids, user_data, jobs, run,
                 sent>>

handle_symbol_selection(c, text) ==
  /\ Free
  /\ conv[c] = "SYMBOL_SELECTION"
  /\ ~IsCommand(text)
  /\ Handled(Msg(c, text))
  /\ LET valid_symbols == ValidSymbols(CommaList(text)) IN
     IF text = Back THEN
       /\ Goto(c, IF AlertSetup(c) THEN "ALERTS" ELSE "SETTINGS")
       /\ UNCHANGED <<settings, user_data>>
     ELSE IF valid_symbols = <<>> THEN
       /\ Goto(c, "SYMBOL_SELECTION")
       /\ UNCHANGED <<settings, user_data>>
     ELSE IF AlertSetup(c) THEN
       /\ user_data' = [user_data EXCEPT ![c] = Put(@, "alert_symbol", valid_symbols[1])]
       /\ Goto(c, "SET_ALERT_PRICE")
       /\ UNCHANGED settings
     ELSE
       /\ settings' = update_setting(c, "symbols", valid_symbols)
       /\ Goto(c, cancel)
       /\ UNCHANGED user_data
  /\ UNCHANGED <<alertKeys, alerts, obj, nAlerts, chat_ids, jobs, run, sent>>

set_alert_price(c, text) ==
  /\ Free
  /\ conv[c] = "SET_ALERT_PRICE"
  /\ ~IsCommand(text)
  /\ Handled(Msg(c, text))
  /\ LET price == ParseFloat(text) IN
     IF text = Back THEN
       /\ Goto(c, "ALERTS")
       /\ UNCHANGED user_data
     ELSE IF price # <<>> THEN
       /\ user_data' = [user_data EXCEPT ![c] = Put(@, "alert_price", price[1])]
       /\ Goto(c, "SET_ALERT_TYPE")
     ELSE
       /\ Goto(c, "SET_ALERT_PRICE")
       /\ UNCHANGED user_data
  /\ Quiet

set_alert_type(c, text) ==
  /\ Free
  /\ conv[c] = "SET_ALERT_TYPE"
  /\ ~IsCommand(text)
  /\ Handled(Msg(c, text))
  /\ IF text = Back THEN
       /\ Goto(c, "ALERTS")
       /\ UNCHANGED <<alertKeys, alerts, obj, nAlerts, user_data>>
     ELSE IF text \in {Above, Below} THEN
       LET price == IF "alert_price" \in DOMAIN user_data[c]
                    THEN <<user_data[c]["alert_price"]>> ELSE <<>>
           symbol == Get(user_data[c], "alert_symbol")
           new == add_alert(c, symbol, LowerTok(text[1]), price)
       IN /\ nAlerts < MaxAlerts
          /\ alertKeys' = new.keys
          /\ alerts' = new.lists
          /\ obj' = new.heap
          /\ nAlerts' = new.n
          /\ user_data' = [user_data EXCEPT ![c] = Pop(@, "alert_setup")]
          /\ Goto(c, cancel)
     ELSE
       /\ Goto(c, "SET_ALERT_TYPE")
       /\ UNCHANGED <<alertKeys, alerts, obj, nAlerts, user_data>>
  /\ UNCHANGED <<settings, chat_ids, jobs, run, sent>>

set_timezone(c, text) ==
  /\ Free
  /\ conv[c] = "SET_TIMEZONE"
  /\ ~IsCommand(text)
  /\ Handled(Msg(c, text))
  /\ IF text = Back THEN
       /\ Goto(c, "SETTINGS")
       /\ UNCHANGED settings
     ELSE IF WordStr(text) \in KnownTimezones THEN
       /\ settings' = update_setting(c, "timezone", WordStr(text))
       /\ Goto(c, cancel)
     ELSE
       /\ Goto(c, "SET_TIMEZONE")
       /\ UNCHANGED settings
  /\ UNCHANGED <<alertKeys, alerts, obj, nAlerts, chat_ids, user_data, jobs, run,
                 sent>>

\* job_queue.run_repeating(send_price_update, interval=freq * 60, first=10)
run_repeating(freq) == Append(jobs, freq * SecondsPerMinute)

set_update_freq(c, text) ==
  /\ Free
  /\ conv[c] = "SET_UPDATE_FREQ"
  /\ ~IsCommand(text)
  /\ Handled(Msg(c, text))
  /\ LET freq == ParseInt(text) IN
     IF text = Back THEN
       /\ Goto(c, "SETTINGS")
       /\ UNCHANGED <<settings, jobs>>
     ELSE IF freq # <<>> /\ MinFreq <= freq[1] /\ freq[1] <= MaxFreq THEN
       /\ Len(jobs) < MaxJobs
       /\ settings' = update_setting(c, "update_freq", freq[1])
       /\ jobs' = run_repeating(freq[1])
       /\ Goto(c, cancel)
     ELSE
       /\ Goto(c, "SET_UPDATE_FREQ")
       /\ UNCHANGED <<settings, jobs>>
  /\ UNCHANGED <<alertKeys, alerts, obj, nAlerts, chat_ids, user_data, run, sent>>

set_indicators(c, text) ==
  /\ Free
  /\ conv[c] = "SET_INDICATORS"
  /\ ~IsCommand(text)
  /\ Handled(Msg(c, text))
  /\ LET indicators == MapUpper(MapWordStr(CommaList(text))) IN
     IF text = Back THEN
       /\ Goto(c, "SETTINGS")
       /\ UNCHANGED settings
     ELSE IF \A i \in 1..Len(indicators) : indicators[i] \in ValidIndicators THEN
       /\ settings' = update_setting(c, "indicators", indicators)
       /\ Goto(c, cancel)
     ELSE
       /\ Goto(c, "SET_INDICATORS")
       /\ UNCHANGED settings
  /\ UNCHANGED <<alertKeys, alerts, obj, nAlerts, chat_ids, user_data, jobs, run,
                 sent>>

set_risk(c, text) ==
  /\ Free
  /\ conv[c] = "SET_RISK"
  /\ ~IsCommand(text)
  /\ Handled(Msg(c, text))
  /\ IF text = Back THEN
       /\ Goto(c, "SETTINGS")
       /\ UNCHANGED settings
     ELSE IF text \in RiskLabels THEN
       /\ settings' = update_setting(c, "risk_appetite", LowerTok(text[1]))
       /\ Goto(c, cancel)
     ELSE
       /\ Goto(c, "SET_RISK")
       /\ UNCHANGED settings
  /\ UNCHANGED <<alertKeys, alerts, obj, nAlerts, chat_ids, user_data, jobs, run,
                 sent>>

\* ------------------------------------------------------ recommendation
\* The zones of the signals are in 1/Scale of the unit of the prices, so
\* that the risk factors 0.3, 0.5 and 0.7 and their halves are integers.
Scale == 20

\* x in list
Has(list, x) == \E i \in 1..Len(list) : list[i] = x

\* A risk factor of 0: the buy zones begin at the support.
RiskFactorNone(risk) == 0

\* {'low': 0.3, 'medium': 0.5, 'high': 0.7}.get(risk, 0.5), times Scale
RiskFactor(risk) ==
  CASE risk = "low" -> 6
    [] risk = "medium" -> 10
    [] risk = "high" -> 14
    [] OTHER -> 10

\* calculate_trading_signals: the signals dict (stop losses and the first
\* take profit, which no recommendation reads, are left out).
calculate_trading_signals(pd, st) ==
  LET support == IF pd.h1_low <= pd.h4_low THEN pd.h1_low ELSE pd.h4_low
      resistance == IF pd.h1_high >= pd.h4_high THEN pd.h1_high ELSE pd.h4_high
      atr == IF Has(st.indicators, "ATR")
             THEN [ATR |-> pd.ATR,
                   safe_buy_zone |-> Scale * support - pd.ATR * RiskFactor(st.risk_appetite),
                   aggressive_buy_zone |->
                     Scale * support - pd.ATR * (RiskFactor(st.risk_appetite) \div 2)]
             ELSE EmptyDict
      rsi == IF Has(st.indicators, "RSI")
             THEN [RSI |-> pd.RSI,
                   rsi_signal |-> IF 30 <= pd.RSI /\ pd.RSI <= 70 THEN "NEUTRAL"
                                  ELSE IF pd.RSI > 70 THEN "OVERBOUGHT"
                                  ELSE "OVERSOLD"]
             ELSE EmptyDict
      macd == IF Has(st.indicators, "MACD")
              THEN [MACD |-> pd.MACD, MACD_Signal |-> pd.MACD_Signal,
                    macd_signal |-> IF pd.MACD > pd.MACD_Signal THEN "BULLISH"
                                    ELSE "BEARISH"]
              ELSE EmptyDict
  IN  [support |-> support, resistance |-> resistance, tp_2 |-> resistance]
      @@ atr @@ rsi @@ macd

\* {'low': " (Low Risk)", 'medium': "", 'high': " (High Risk)"}.get(risk, "")
risk_note(risk) ==
  CASE risk = "low" -> " (Low Risk)"
    [] risk = "high" -> " (High Risk)"
    [] OTHER -> ""

\* generate_recommendation in which an enabled MACD always decides.
generate_recommendation_macd_first(pd, signals, st) ==
  IF Has(st.indicators, "MACD")
  THEN <<IF signals.macd_signal = "BULLISH" THEN "BULLISH" ELSE "BEARISH",
         risk_note(st.risk_appetite)>>
  ELSE <<"NEUTRAL", risk_note(st.risk_appetite)>>

\* generate_recommendation: the label and the risk note of the string it
\* returns.
generate_recommendation(pd, signals, st) ==
  LET price == Scale * pd.current_price
      \* signals.get(k, 0) for a zone, and signals.get(k) for a label
      GetZone(k) == IF k \in DOMAIN signals THEN signals[k] ELSE 0
      GetLabel(k) == IF k \in DOMAIN signals THEN signals[k] ELSE ""
      first ==
        IF Has(st.indicators, "RSI") /\ Has(st.indicators, "ATR")
        THEN IF /\ price <= GetZone("safe_buy_zone")
                /\ GetLabel("rsi_signal") = "OVERSOLD"
             THEN "STRONG BUY"
             ELSE IF /\ price >= Scale * signals.resistance
                     /\ GetLabel("rsi_signal") = "OVERBOUGHT"
             THEN "SELL"
             ELSE IF price <= GetZone("aggressive_buy_zone")
             THEN "BUY"
             ELSE "NEUTRAL"
        ELSE "NEUTRAL"
      label ==
        IF Has(st.indicators, "MACD") /\ first = "NEUTRAL"
        THEN IF GetLabel("macd_signal") = "BULLISH" THEN "BULLISH"
             ELSE "BEARISH"
        ELSE first
  IN  <<label, risk_note(st.risk_appetite)>>

\* No recommendation made.
NoAdvice == [pd |-> EmptyDict, st |-> EmptyDict, out |-> <<>>]

\* Lines 472-473 and 408 for one snapshot and one chat's settings: the
\* signals, then the recommendation.
Recommend ==
  /\ advice.out = <<>>
  /\ advice.pd # EmptyDict
  /\ advice' = [advice EXCEPT
                  !.out = <<generate_recommendation(
                              advice.pd,
                              calculate_trading_signals(advice.pd, advice.st),
                              advice.st)>>]
  /\ UNCHANGED <<alertKeys, alerts, obj, nAlerts, settings, chat_ids, conv,
                 user_data, jobs, run, sent, ev, reply, world>>
  /\ UNCHANGED <<cache_vars, lock_vars>>

\* ----------------------------------------------------------- store locks
\* The writes of the three stores, step by step.  A coroutine runs from
\* one await to the next without a switch: a task takes a step only while
\* every other task is suspended.
Stores == {"cache", "alerts", "settings"}
Tasks == {0, 1}
\* A document has at most MaxWrites versions.
MaxWrites == 2

\* The writes: PriceDataCache.update; add_alert and remove_alert;
\* update_setting; and check_alerts, which sets alert['active'] after each
\* awaited send and saves at the end of a chat's list.
Writes == {"update", "add_alert", "update_setting", "check_alerts"}
StoreOf(w) ==
  CASE w = "update" -> "cache"
    [] w = "update_setting" -> "settings"
    [] OTHER -> "alerts"

\* A task is suspended between two writes ("await") or, in check_alerts,
\* in the send of the next alert ("send").
Suspended == {"await", "send"}
CanRun(k) == \A t \in Tasks \ {k} : task[t].pc \in Suspended

NoWrites ==
  /\ lock = [s \in Stores |-> FALSE]
  /\ task = [k \in Tasks |->
               [pc |-> "await", write |-> "update", dirty |-> FALSE, raised |-> FALSE]]
  /\ doc = [mem |-> [s \in Stores |-> 0], disk |-> [s \in Stores |-> 0]]

LockStep(k, pc) ==
  /\ task[k].pc = pc
  /\ CanRun(k)
  /\ UNCHANGED <<bot_vars, cache_vars>>

\* The coroutine comes to a write: update takes the lock first, the others
\* change the dict first.
Call(k, w) ==
  /\ LockStep(k, "await")
  /\ doc.mem[StoreOf(w)] < MaxWrites
  /\ task' = [task EXCEPT ![k] = [pc |-> IF w = "update" THEN "test" ELSE "modify",
                                  write |-> w, dirty |-> FALSE, raised |-> FALSE]]
  /\ UNCHANGED <<lock, doc>>

\* The dict is changed; check_alerts may then wait in its next send.
Modify(k) ==
  /\ LockStep(k, "modify")
  /\ doc' = [doc EXCEPT !.mem[StoreOf(task[k].write)] = @ + 1]
  /\ \E pc \in IF task[k].write = "update" THEN {"dump"}
               ELSE IF task[k].write = "check_alerts" THEN {"send", "test"}
               ELSE {"test"} :
       task' = [task EXCEPT ![k].pc = pc, ![k].dirty = TRUE]
  /\ UNCHANGED lock

\* The send returned: the next alert is marked, if the document has room,
\* or the list is at its end.
SendDone(k) ==
  /\ LockStep(k, "send")
  /\ \E pc \in {"modify", "test"} :
       /\ pc = "modify" => doc.mem[StoreOf(task[k].write)] < MaxWrites
       /\ task' = [task EXCEPT ![k].pc = pc]
  /\ UNCHANGED <<lock, doc>>

\* while self.lock: pass
LockTest(k) ==
  /\ LockStep(k, "test")
  /\ ~lock[StoreOf(task[k].write)]
  /\ task' = [task EXCEPT ![k].pc = "set"]
  /\ UNCHANGED <<lock, doc>>

\* self.lock = True
LockSet(k) ==
  /\ LockStep(k, "set")
  /\ lock' = [lock EXCEPT ![StoreOf(task[k].write)] = TRUE]
  /\ task' = [task EXCEPT ![k].pc = IF task[k].write = "update" THEN "modify"
                                    ELSE "dump"]
  /\ UNCHANGED doc

\* open and json.dump: the document on disk is the one in memory, or the
\* write raises.
Persist(k, ok) ==
  /\ LockStep(k, "dump")
  /\ doc' = IF ok THEN [doc EXCEPT !.disk[StoreOf(task[k].write)] =
                                     doc.mem[StoreOf(task[k].write)]]
            ELSE doc
  /\ task' = [task EXCEPT ![k].pc = "release", ![k].dirty = ~ok, ![k].raised = ~ok]
  /\ UNCHANGED lock

\* The flags after a finally clause that runs only when nothing was raised.
ReleasedUnlessRaised(k) ==
  IF task[k].raised THEN lock ELSE [lock EXCEPT ![StoreOf(task[k].write)] = FALSE]

\* The flags after `finally: self.lock = False`.
Released(k) == [lock EXCEPT ![StoreOf(task[k].write)] = FALSE]

\* The finally clause, then the return to the caller, which awaits next.
LockRelease(k) ==
  /\ LockStep(k, "release")
  /\ lock' = Released(k)
  /\ task' = [task EXCEPT ![k].pc = "await"]
  /\ UNCHANGED doc

\* ------------------------------------------------------ snapshot cache
\* The dialogs and the passes take the prices they fetch from the network
\* outcomes of Fetches, which cover a cache hit as well as a miss; the cache
\* itself is the state of the cache specification.
CACHE_EXPIRY_MINUTES == 5
\* The clock stops at MaxNow.
MaxNow == 5

\* FOREX_SYMBOLS.get(symbol, symbol)
Yahoo(symbol) ==
  CASE symbol = "EUR/USD" -> "EURUSD=X"
    [] symbol = "GBP/USD" -> "GBPUSD=X"
    [] OTHER -> symbol

CacheKeys == {Yahoo(symbol) : symbol \in FOREX_SYMBOLS}

\* datetime.isoformat and datetime.fromisoformat
isoformat(t) == <<"T", t>>
fromisoformat(str) == str[2]

\* What yf.Ticker(...).history(...) does: it raises, it returns an empty
\* frame, or it returns bars (one bar here: open, high, low and close are
\* one price) on which the indicator library works ("ok") or fails.
Histories ==
  {[kind |-> "raises", close |-> 0, ta |-> "ok"],
   [kind |-> "empty", close |-> 0, ta |-> "ok"]}
  \cup {[kind |-> "data", close |-> p, ta |-> k] : p \in Prices, k \in {"ok", "fails"}}

IndicatorFields == {"ATR", "RSI", "MACD", "MACD_Signal", "MACD_Hist"}

\* get_technical_indicators: the five indicators, or {} when the library
\* raises.
get_technical_indicators(h) ==
  IF h.ta = "fails" THEN EmptyDict
  ELSE [ATR |-> 1, RSI |-> 50, MACD |-> 0, MACD_Signal |-> 0, MACD_Hist |-> 0]

\* The price_data dict of get_forex_price, built at time t.
price_data(symbol, h, t) ==
  [symbol |-> symbol, current_price |-> h.close, open |-> h.close,
   weekly_high |-> h.close, weekly_low |-> h.close,
   daily_high |-> h.close, daily_low |-> h.close,
   h4_high |-> h.close, h4_low |-> h.close,
   h1_high |-> h.close, h1_low |-> h.close,
   timestamp |-> isoformat(t)] @@ get_technical_indicators(h)

NewCache == [data |-> EmptyDict, last_updated |-> EmptyDict]

\* is_valid with the expiry minute itself still valid.
is_valid_inclusive(pc, y, t) ==
  /\ y \in DOMAIN pc.data
  /\ y \in DOMAIN pc.last_updated
  /\ t - pc.last_updated[y] <= CACHE_EXPIRY_MINUTES

\* PriceDataCache.is_valid at time t.
is_valid(pc, y, t) ==
  /\ y \in DOMAIN pc.data
  /\ y \in DOMAIN pc.last_updated
  /\ t - pc.last_updated[y] < CACHE_EXPIRY_MINUTES

\* PriceDataCache.update at time t: the dicts afterwards.
update(pc, y, d, t) ==
  [data |-> Put(pc.data, y, d), last_updated |-> Put(pc.last_updated, y, t)]

\* What save_to_file writes.
Dump(pc) ==
  [kind |-> "dict",
   body |-> [data |-> pc.data,
             last_updated |->
               [k \in DOMAIN pc.last_updated |-> isoformat(pc.last_updated[k])]]]

\* The cache file: missing, not JSON, a JSON list, or a JSON dict.
MissingFile == [kind |-> "missing", body |-> EmptyDict]
CorruptFile == [kind |-> "corrupt", body |-> EmptyDict]
ListFile == [kind |-> "list", body |-> EmptyDict]

\* The file an earlier run left, which fetched EUR/USD at time 0, and the
\* same file with some of its keys missing.
SavedFile ==
  Dump(update(NewCache, Yahoo("EUR/USD"),
              price_data("EUR/USD",
                         [kind |-> "data", close |-> SteadyPrice, ta |-> "ok"], 0),
              0))
CacheFiles ==
  {MissingFile, CorruptFile, ListFile}
  \cup {[kind |-> "dict", body |-> [k \in K |-> SavedFile.body[k]]] :
          K \in SUBSET {"data", "last_updated"}}

\* load_from_file that stamps the data with the time 0 when the file has no
\* 'last_updated'.
load_from_file_stamped(f) ==
  IF f.kind \in {"missing", "corrupt"}
  THEN [raised |-> FALSE, cache |-> NewCache]
  ELSE IF f.kind = "list"
  THEN [raised |-> TRUE, cache |-> NewCache]
  ELSE LET data == IF "data" \in DOMAIN f.body THEN f.body.data ELSE EmptyDict
       IN  [raised |-> FALSE,
            cache |-> [data |-> data,
                       last_updated |->
                         IF "last_updated" \in DOMAIN f.body
                         THEN [k \in DOMAIN f.body.last_updated |->
                                 fromisoformat(f.body.last_updated[k])]
                         ELSE [k \in DOMAIN data |-> 0]]]

\* load_from_file: the dicts afterwards, and whether it raised (a JSON list
\* has no get: AttributeError is not caught).
load_from_file(f) ==
  IF f.kind \in {"missing", "corrupt"}
  THEN [raised |-> FALSE, cache |-> NewCache]
  ELSE IF f.kind = "list"
  THEN [raised |-> TRUE, cache |-> NewCache]
  ELSE LET data == IF "data" \in DOMAIN f.body THEN f.body.data ELSE EmptyDict
           last_updated ==
             IF "last_updated" \in DOMAIN f.body THEN f.body.last_updated
             ELSE EmptyDict
       IN  [raised |-> FALSE,
            cache |-> [data |-> data,
                       last_updated |->
                         [k \in DOMAIN last_updated |->
                            fromisoformat(last_updated[k])]]]

\* The cache operation just done: op is "new" (constructed), "load",
\* "crash" (load raised) or "get"; a get names its symbol, its time,
\* whether it called the provider and with what outcome, and what it
\* returned (<<>> for None).
CStep(op, symbol, called, kind, ret) ==
  [op |-> op, symbol |-> symbol, at |-> now, called |-> called, kind |-> kind,
   ret |-> ret]

\* Lines 228-229.
NoCache ==
  /\ price_cache = NewCache
  /\ cache_file = MissingFile
  /\ now = 0
  /\ cstep = [op |-> "new", symbol |-> "", at |-> 0, called |-> FALSE,
              kind |-> "", ret |-> <<>>]

Loaded == cstep.op \in {"load", "get"}

\* price_cache.load_from_file() at line 229.
Load ==
  /\ cstep.op = "new"
  /\ LET l == load_from_file(cache_file)
     IN  /\ price_cache' = l.cache
         /\ cstep' = CStep(IF l.raised THEN "crash" ELSE "load", "", FALSE, "", <<>>)
  /\ UNCHANGED <<cache_file, now>>
  /\ UNCHANGED <<bot_vars, lock_vars>>

\* A minute passes.
Elapse ==
  /\ Loaded
  /\ now < MaxNow
  /\ now' = now + 1
  /\ UNCHANGED <<price_cache, cache_file, cstep>>
  /\ UNCHANGED <<bot_vars, lock_vars>>

\* get_forex_price(symbol) when the provider does h and save_to_file
\* succeeds or not.
get_forex_price(symbol, h, saved) ==
  /\ Loaded
  /\ LET y == Yahoo(symbol)
     IN  IF is_valid(price_cache, y, now)
         THEN /\ cstep' = CStep("get", symbol, FALSE, "", <<price_cache.data[y]>>)
              /\ UNCHANGED <<price_cache, cache_file>>
         ELSE IF h.kind # "data"
         THEN /\ cstep' = CStep("get", symbol, TRUE, h.kind, <<>>)
              /\ UNCHANGED <<price_cache, cache_file>>
         ELSE LET d == price_data(symbol, h, now)
              IN  /\ price_cache' = update(price_cache, y, d, now)
                  /\ cache_file' = IF saved THEN Dump(price_cache') ELSE cache_file
                  /\ cstep' = CStep("get", symbol, TRUE, h.kind, <<d>>)
  /\ now' = now
  /\ UNCHANGED <<bot_vars, lock_vars>>

\* --------------------------------------------------------------- Init
\* The chats that talk to the bot during the run; the other chats are known
\* to it only from its files.
Talkers == {1}

\* main() with no files: empty stores, and the job of line 852.
NoFiles ==
  /\ alertKeys = <<>>
  /\ alerts = [c \in Chats |-> <<>>]
  /\ obj = [a \in AlertIds |-> NoAlert]
  /\ nAlerts = 0
  /\ settings = [c \in Chats |-> EmptyDict]
  /\ chat_ids = <<>>
  /\ conv = [c \in Chats |-> END]
  /\ user_data = [c \in Chats |-> EmptyDict]
  /\ jobs = <<MainInterval>>
  /\ run = [r \in RunIds |-> IdleRun]
  /\ sent = [a \in AlertIds |-> <<>>]
  /\ ev = NoMsg
  /\ reply = <<>>
  /\ NoWrites
  /\ advice = NoAdvice
  /\ NoCache

\* main() with the files of an earlier run, in which chat 2 subscribed to
\* GBP/USD and created one alert on it.
Files ==
  /\ alertKeys = <<2>>
  /\ alerts = [c \in Chats |-> IF c = 2 THEN <<1>> ELSE <<>>]
  /\ obj = [a \in AlertIds |->
              IF a = 1
              THEN [symbol |-> "GBP/USD", type |-> "above", price |-> 12,
                    created |-> 1, active |-> TRUE, owner |-> 2]
              ELSE NoAlert]
  /\ nAlerts = 1
  /\ settings = [c \in Chats |->
                   IF c = 2 THEN Put(EmptyDict, "symbols", <<"GBP/USD">>)
                   ELSE EmptyDict]
  /\ chat_ids = <<2>>
  /\ conv = [c \in Chats |-> END]
  /\ user_data = [c \in Chats |-> EmptyDict]
  /\ jobs = <<MainInterval>>
  /\ run = [r \in RunIds |-> IdleRun]
  /\ sent = [a \in AlertIds |-> <<>>]
  /\ ev = NoMsg
  /\ reply = <<>>
  /\ NoWrites
  /\ advice = NoAdvice
  /\ NoCache

Init == NoFiles /\ world = "any"
InitLoaded == Files /\ world = "any"
InitSteady == NoFiles /\ world = "steady"

\* ------------------------------------------- the alert specification
\* The messages the users send in the alert specification.
AlertTexts ==
  {Refresh, AlertsBtn, SymbolsBtn, Back, NewAlert, <<"Delete", " ", "1">>,
   <<"bogus", ",", " ", "GBP/USD">>, <<"1", ".", "2">>, Above, Below}

Dialog(c, text) ==
  \/ handle_menu(c, text)
  \/ handle_alerts(c, text)
  \/ handle_settings(c, text)
  \/ handle_symbol_selection(c, text)
  \/ set_alert_price(c, text)
  \/ set_alert_type(c, text)

Coroutines ==
  \/ \E j \in 1..MaxJobs : Tick(j)
  \/ \E r \in RunIds : SendReturns(r) \/ SendRaises(r) \/ MenuSent(r)

Next ==
  \/ \E c \in Talkers : start(c) \/ stop(c)
  \/ \E c \in Talkers, text \in AlertTexts : Dialog(c, text)
  \/ Coroutines

Spec == (Init \/ InitLoaded) /\ [][Next]_vars

\* ------------------------------------ the sequential-pass specification
\* Coroutine r may begin a matching pass: no other coroutine is inside one.
Sequential(r) == \A q \in RunIds \ {r} : run[q].pc # "send"

\* The alert specification with the passes one after another: a coroutine
\* runs up to its next check_alerts only while no other pass is in flight.
SeqNext ==
  \/ \E c \in Talkers : (Sequential(0) /\ start(c)) \/ stop(c)
  \/ \E c \in Talkers, text \in AlertTexts :
       /\ text = Refresh => Sequential(0)
       /\ Dialog(c, text)
  \/ \E j \in 1..MaxJobs : Sequential(j) /\ Tick(j)
  \/ \E r \in RunIds :
       SendReturns(r) \/ SendRaises(r) \/ (Sequential(r) /\ MenuSent(r))

SpecSeq == (Init \/ InitLoaded) /\ [][SeqNext]_vars

\* ------------------------------------------- the liveness specification
\* The messages the users send in the liveness specification.
LiveTexts ==
  {AlertsBtn, SymbolsBtn, NewAlert, <<"bogus", ",", " ", "GBP/USD">>,
   <<"1", ".", "2">>, Above}

LiveNext ==
  \/ \E c \in Talkers : start(c) \/ stop(c)
  \/ \E c \in Talkers, text \in LiveTexts :
       \/ handle_menu(c, text)
       \/ handle_alerts(c, text)
       \/ handle_symbol_selection(c, text)
       \/ set_alert_price(c, text)
       \/ set_alert_type(c, text)
  \/ \E j \in 1..MaxJobs : Tick(j)
  \/ \E r \in RunIds : SendReturns(r) \/ MenuSent(r)

\* A steady world, the job queue firing every job again and again and the
\* event loop resuming every suspended coroutine.
SpecLive ==
  /\ InitSteady
  /\ [][LiveNext]_vars
  /\ \A j \in 1..MaxJobs : WF_vars(Tick(j))
  /\ \A r \in RunIds : WF_vars(SendReturns(r) \/ MenuSent(r))

\* --------------------------------------------- the dialog specification
\* main() with the settings file of an earlier run, in which chat 1 chose
\* every setting that is typed in.
Settled ==
  [timezone |-> "Asia/Tokyo", update_freq |-> 60, indicators |-> <<"RSI", "ATR">>,
   risk_appetite |-> "high", symbols |-> <<"EUR/USD">>]

InitSettled ==
  /\ alertKeys = <<>>
  /\ alerts = [c \in Chats |-> <<>>]
  /\ obj = [a \in AlertIds |-> NoAlert]
  /\ nAlerts = 0
  /\ settings = [c \in Chats |-> IF c = 1 THEN Settled ELSE EmptyDict]
  /\ chat_ids = <<>>
  /\ conv = [c \in Chats |-> END]
  /\ user_data = [c \in Chats |-> EmptyDict]
  /\ jobs = <<MainInterval>>
  /\ run = [r \in RunIds |-> IdleRun]
  /\ sent = [a \in AlertIds |-> <<>>]
  /\ ev = NoMsg
  /\ reply = <<>>
  /\ NoWrites
  /\ advice = NoAdvice
  /\ NoCache
  /\ world = "any"

\* The messages the users send in the dialog specification: every button,
\* and for every free-text state an input it accepts (each is an input that
\* the other states refuse).  The alert threshold is above every price.
DialogTexts ==
  {Refresh, Analysis, AlertsBtn, SettingsBtn, SymbolsBtn, StopBtn, Back,
   NewAlert, <<"Delete", " ", "1">>, OptTimezone, OptFrequency, OptIndicators,
   OptNotifications, OptRisk, OptSymbols, <<"bogus", ",", " ", "EUR/USD">>,
   <<"1", ".", "4">>, Above, <<"Asia/Tokyo">>, <<"6", "0">>,
   <<"rsi", ",", "ATR">>, <<"High">>}

Handlers(c, text) ==
  \/ Dialog(c, text)
  \/ set_timezone(c, text)
  \/ set_update_freq(c, text)
  \/ set_indicators(c, text)
  \/ set_risk(c, text)

\* The dialog of the talking chats alone: no job fires.
DialogNext ==
  \/ \E c \in Talkers : start(c) \/ stop(c)
  \/ \E c \in Talkers, text \in DialogTexts : Handlers(c, text)
  \/ MenuSent(0)

SpecDialog == InitSettled /\ [][DialogNext]_vars

\* ------------------------------------------- the settings specification
\* The messages the users send in the settings specification.
SettingsTexts ==
  {SettingsBtn, Back, OptTimezone, OptFrequency, OptIndicators,
   OptNotifications, OptRisk, OptSymbols, <<"bogus", ",", " ", "GBP/USD">>,
   <<"Asia/Tokyo">>, <<"1", "4">>, <<"1", "5">>, <<"1", "4", "4", "0">>,
   <<"1", "4", "4", "1">>, <<"macd">>, <<"High">>}

SettingsNext ==
  \/ \E c \in Talkers : start(c) \/ stop(c)
  \/ \E c \in Talkers, text \in SettingsTexts :
       \/ handle_menu(c, text)
       \/ handle_settings(c, text)
       \/ handle_symbol_selection(c, text)
       \/ set_timezone(c, text)
       \/ set_update_freq(c, text)
       \/ set_indicators(c, text)
       \/ set_risk(c, text)
  \/ MenuSent(0)

SpecSettings == Init /\ [][SettingsNext]_vars

\* --------------------------------------------- the symbol specification
\* Symbol inputs in upper and in lower case.
UpperInput == <<"EUR/USD", ",", " ", "bogus", ",", " ", "GBP/USD">>
LowerInput == <<"eur/usd", ",", " ", "bogus", ",", " ", "gbp/usd">>

\* The messages the users send in the symbol specification.
SymbolTexts ==
  {SymbolsBtn, AlertsBtn, NewAlert, Back, UpperInput, LowerInput, <<"bogus">>}

SymbolNext ==
  \/ \E c \in Talkers : start(c) \/ stop(c)
  \/ \E c \in Talkers, text \in SymbolTexts :
       \/ handle_menu(c, text)
       \/ handle_alerts(c, text)
       \/ handle_settings(c, text)
       \/ handle_symbol_selection(c, text)
       \/ set_alert_price(c, text)
  \/ MenuSent(0)

SpecSymbols == Init /\ [][SymbolNext]_vars

\* ----------------------------------------------- the lock specification
LockNext ==
  \E k \in Tasks :
    \/ \E w \in Writes : Call(k, w)
    \/ Modify(k)
    \/ SendDone(k)
    \/ LockTest(k)
    \/ LockSet(k)
    \/ \E ok \in BOOLEAN : Persist(k, ok)
    \/ LockRelease(k)

SpecLock == Init /\ [][LockNext]_vars

\* -------------------------------------------- the removal specification
\* The messages the users send in the removal specification: the alerts
\* they create never match, and they delete at every position from 0 up.
RemoveTexts ==
  {AlertsBtn, NewAlert, Back, <<"EUR/USD">>, <<"1", ".", "4">>, Above}
  \cup {DeletePrefix \o <<d>> : d \in {"0", "1", "2", "3"}}

RemoveNext ==
  \/ \E c \in Talkers : start(c) \/ stop(c)
  \/ \E c \in Talkers, text \in RemoveTexts :
       \/ handle_menu(c, text)
       \/ handle_alerts(c, text)
       \/ handle_symbol_selection(c, text)
       \/ set_alert_price(c, text)
       \/ set_alert_type(c, text)
  \/ MenuSent(0)

SpecRemove == (Init \/ InitLoaded) /\ [][RemoveNext]_vars

\* --------------------------------------- the recommendation specification
\* The prices of a snapshot: the last bar lies in the last hour, and the
\* last hour in the last four.
Snapshots ==
  LET Quotes == {11, 12, 13}
  IN  {pd \in [current_price : Quotes, h1_low : Quotes, h4_low : Quotes,
               h1_high : Quotes, h4_high : Quotes, ATR : {0, 2},
               RSI : {20, 30, 70, 80}, MACD : {0, 1}, MACD_Signal : {0, 1}] :
         /\ pd.h4_low <= pd.h1_low /\ pd.h1_low <= pd.current_price
         /\ pd.current_price <= pd.h1_high /\ pd.h1_high <= pd.h4_high
         /\ pd.MACD + pd.MACD_Signal <= 1}

\* The indicator lists and risk levels set_indicators and set_risk store.
AdviceSettings ==
  {[indicators |-> i, risk_appetite |-> r] :
     i \in {<<"RSI", "ATR", "MACD">>, <<"RSI", "ATR">>, <<"RSI", "MACD">>,
            <<"ATR", "MACD">>, <<"RSI">>, <<"ATR">>, <<"MACD">>},
     r \in {"low", "medium", "high"}}

InitAdvice ==
  /\ alertKeys = <<>>
  /\ alerts = [c \in Chats |-> <<>>]
  /\ obj = [a \in AlertIds |-> NoAlert]
  /\ nAlerts = 0
  /\ settings = [c \in Chats |-> EmptyDict]
  /\ chat_ids = <<>>
  /\ conv = [c \in Chats |-> END]
  /\ user_data = [c \in Chats |-> EmptyDict]
  /\ jobs = <<MainInterval>>
  /\ run = [r \in RunIds |-> IdleRun]
  /\ sent = [a \in AlertIds |-> <<>>]
  /\ ev = NoMsg
  /\ reply = <<>>
  /\ NoWrites
  /\ NoCache
  /\ world = "any"
  /\ advice \in {[pd |-> pd, st |-> st, out |-> <<>>] :
                   pd \in Snapshots, st \in AdviceSettings}

SpecAdvice == InitAdvice /\ [][Recommend]_vars

\* --------------------------------------------- the outage specification
\* An earlier run left the files of Files, and chat 1 subscribed to both
\* symbols; the provider is down for some symbol during this run.
InitIsolate ==
  /\ alertKeys = <<2>>
  /\ alerts = [c \in Chats |-> IF c = 2 THEN <<1>> ELSE <<>>]
  /\ obj = [a \in AlertIds |->
              IF a = 1
              THEN [symbol |-> "GBP/USD", type |-> "above", price |-> 12,
                    created |-> 1, active |-> TRUE, owner |-> 2]
              ELSE NoAlert]
  /\ nAlerts = 1
  /\ settings = [c \in Chats |->
                   IF c = 2 THEN Put(EmptyDict, "symbols", <<"GBP/USD">>)
                   ELSE Put(EmptyDict, "symbols", <<"EUR/USD", "GBP/USD">>)]
  /\ chat_ids = <<1, 2>>
  /\ conv = [c \in Chats |-> END]
  /\ user_data = [c \in Chats |-> EmptyDict]
  /\ jobs = <<MainInterval>>
  /\ run = [r \in RunIds |-> IdleRun]
  /\ sent = [a \in AlertIds |-> <<>>]
  /\ ev = NoMsg
  /\ reply = <<>>
  /\ NoWrites
  /\ advice = NoAdvice
  /\ NoCache
  /\ world \in Outages

IsolateNext ==
  \/ \E c \in Talkers : start(c) \/ stop(c) \/ handle_menu(c, Refresh)
  \/ Coroutines

SpecIsolate == InitIsolate /\ [][IsolateNext]_vars

\* ---------------------------------------------- the cache specification
\* main() with any cache file, and nothing else on disk.
InitCache ==
  /\ alertKeys = <<>>
  /\ alerts = [c \in Chats |-> <<>>]
  /\ obj = [a \in AlertIds |-> NoAlert]
  /\ nAlerts = 0
  /\ settings = [c \in Chats |-> EmptyDict]
  /\ chat_ids = <<>>
  /\ conv = [c \in Chats |-> END]
  /\ user_data = [c \in Chats |-> EmptyDict]
  /\ jobs = <<MainInterval>>
  /\ run = [r \in RunIds |-> IdleRun]
  /\ sent = [a \in AlertIds |-> <<>>]
  /\ ev = NoMsg
  /\ reply = <<>>
  /\ NoWrites
  /\ advice = NoAdvice
  /\ world = "any"
  /\ price_cache = NewCache
  /\ cache_file \in CacheFiles
  /\ now = 0
  /\ cstep = [op |-> "new", symbol |-> "", at |-> 0, called |-> FALSE,
              kind |-> "", ret |-> <<>>]

CacheNext ==
  \/ Load
  \/ Elapse
  \/ \E symbol \in FOREX_SYMBOLS, h \in Histories, saved \in BOOLEAN :
       get_forex_price(symbol, h, saved)

SpecCache == InitCache /\ [][CacheNext]_vars

\* --------------------------------------------------------- properties
\* Alert a has been notified n times.
Notified(a, n) == Len(sent[a]) = n

\* Coroutine r has just ended a matching pass in the way `how`.
PassEnded(r, how) == run[r].pc = "menu" /\ run[r].last = how

\* C1: with the matching passes one after another, an alert still in its
\* list whose condition held when a pass began has, once that pass has
\* completed, been notified exactly once and is inactive; no alert is ever
\* notified twice, and a notified alert is inactive, so that no later pass
\* notifies it again.
C1_OneShotSequential ==
  /\ \A a \in AlertIds : Len(sent[a]) <= 1 /\ (Notified(a, 1) => ~obj[a].active)
  /\ \A r \in RunIds :
       PassEnded(r, "done") =>
         \A a \in run[r].start \cap Listed : Notified(a, 1) /\ ~obj[a].active

\* A pass over alerts of both chats has completed.
C1_Witness ==
  \E r \in RunIds :
    /\ PassEnded(r, "done")
    /\ \E a, b \in run[r].start \cap Listed : obj[a].owner # obj[b].owner

\* C2: every alert instance produces at most one notification, also when
\* matching passes overlap.
C2_AtMostOnce == \A a \in AlertIds : Len(sent[a]) <= 1

\* C3: when a matching pass ends, it has notified exactly the alerts whose
\* condition held for its observation, each to its owner, and they are
\* inactive.
C3_ExactlyTheMatching ==
  \A r \in RunIds :
    run[r].pc = "menu" /\ run[r].last # "none" =>
      /\ run[r].fired = run[r].start
      /\ \A a \in run[r].start :
           /\ ~obj[a].active
           /\ \E i \in 1..Len(sent[a]) : sent[a][i] = obj[a].owner

\* The list xs without its element at position i.
Without(xs, i) == SubSeq(xs, 1, i - 1) \o SubSeq(xs, i + 1, Len(xs))

\* The step is chat c's message "Delete N" in the Alerts state.
DeletesByIndex(c) ==
  ev'.chat = c /\ conv[c] = "ALERTS" /\ StartsWith(ev'.text, DeletePrefix)

\* C4: no step sets the active flag of an existing alert from false to true;
\* a chat's list changes only by the append of a newly created alert or by
\* that chat's "Delete N", which takes out one position and keeps the others
\* in order; every list is in creation order.
C4_ActiveOnlyFalls ==
  /\ [](\A c \in Chats : \A i, j \in 1..Len(alerts[c]) :
          i < j => obj[alerts[c][i]].created < obj[alerts[c][j]].created)
  /\ [][/\ \A a \in 1..nAlerts : ~obj[a].active => ~obj'[a].active
        /\ \A c \in Chats :
             alerts'[c] # alerts[c] =>
               \/ /\ nAlerts' = nAlerts + 1
                  /\ alerts'[c] = Append(alerts[c], nAlerts')
               \/ /\ DeletesByIndex(c)
                  /\ \E i \in 1..Len(alerts[c]) : alerts'[c] = Without(alerts[c], i)]_vars

\* A triggered alert is still in its list, ahead of a younger alert.
C4_Witness ==
  \E c \in Chats :
    /\ Len(alerts[c]) >= 2
    /\ ~obj[alerts[c][1]].active
    /\ Len(sent[alerts[c][1]]) >= 1

\* The step is a message of chat c, handled in dialog state `state`.
Handles(c, state) == ev'.chat = c /\ conv[c] = state /\ ~IsCommand(ev'.text)

\* No alert is created or changed by the step.
NoAlertCreated == nAlerts' = nAlerts /\ alerts' = alerts /\ alertKeys' = alertKeys

\* C6: in the alert-creation flow, "New Alert" raises the flag; a symbol
\* input with a known symbol stashes the first one; a parsable price stashes
\* it; "Above"/"Below" then appends exactly one alert to the chat's list,
\* made of the stashed symbol and price, the lowercased type and active,
\* clears the flag and ends in Menu.  Every other message of the flow (Back,
\* invalid input) creates no alert, and invalid input keeps the stash.
C6_CreationFlow ==
  [][\A c \in Chats :
       LET text == ev'.text
           valid == ValidSymbols(CommaList(text))
           id == nAlerts + 1
       IN /\ Handles(c, "ALERTS") /\ text = NewAlert =>
               /\ AlertSetup(c)' /\ conv'[c] = "SYMBOL_SELECTION" /\ NoAlertCreated
          /\ Handles(c, "SYMBOL_SELECTION") /\ text # Back /\ AlertSetup(c) =>
               /\ NoAlertCreated
               /\ IF valid # <<>>
                  THEN /\ user_data'[c] = Put(user_data[c], "alert_symbol", valid[1])
                       /\ conv'[c] = "SET_ALERT_PRICE"
                  ELSE user_data' = user_data /\ conv'[c] = "SYMBOL_SELECTION"
          /\ Handles(c, "SET_ALERT_PRICE") /\ text # Back =>
               /\ NoAlertCreated
               /\ IF ParseFloat(text) # <<>>
                  THEN /\ user_data'[c] =
                            Put(user_data[c], "alert_price", ParseFloat(text)[1])
                       /\ conv'[c] = "SET_ALERT_TYPE"
                  ELSE user_data' = user_data /\ conv'[c] = "SET_ALERT_PRICE"
          /\ Handles(c, "SET_ALERT_TYPE") /\ text \in {Above, Below} =>
               /\ nAlerts' = id
               /\ alerts' = [alerts EXCEPT ![c] = Append(@, id)]
               /\ obj' = [obj EXCEPT ![id] =
                            [symbol |-> user_data[c]["alert_symbol"],
                             type |-> IF text = Above THEN "above" ELSE "below",
                             price |-> user_data[c]["alert_price"],
                             created |-> id, active |-> TRUE, owner |-> c]]
               /\ "alert_setup" \notin DOMAIN user_data'[c]
               /\ conv'[c] = "MENU"
          /\ Handles(c, "SET_ALERT_TYPE") /\ text \notin {Above, Below} =>
               /\ NoAlertCreated
               /\ user_data' = user_data
               /\ conv'[c] = IF text = Back THEN "ALERTS" ELSE "SET_ALERT_TYPE"
          /\ \E st \in {"SYMBOL_SELECTION", "SET_ALERT_PRICE"} :
               Handles(c, st) /\ text = Back => NoAlertCreated]_vars

\* The flow has just created an alert from the first known symbol of an
\* input that began with an unknown one.
C6_Witness ==
  \E c \in Chats :
    /\ ev = Msg(c, Below)
    /\ conv[c] = "MENU"
    /\ nAlerts >= 1
    /\ Len(alerts[c]) >= 1
    /\ alerts[c][Len(alerts[c])] = nAlerts
    /\ obj[nAlerts] = [symbol |-> "GBP/USD", type |-> "below", price |-> 12,
                       created |-> nAlerts, active |-> TRUE, owner |-> c]
    /\ "alert_setup" \notin DOMAIN user_data[c]

\* Alert a is in a list, active, and the steady price meets its condition.
Pending(a) ==
  a \in Listed /\ Matches(obj[a], obj[a].symbol, SteadyPrice)

\* C5: in a steady world with fair ticks, a listed active alert whose
\* condition the price of its symbol meets is eventually fired (or deleted):
\* it does not stay pending for ever, not even while its owner stays
\* subscribed.
C5_EventuallyFired ==
  \A a \in AlertIds : []<>(~(Pending(a) /\ obj[a].owner \in Range(chat_ids)))

\* The table's rows: the events it lists for a state.
TableLists(state, text) ==
  CASE state = "MENU" ->
         text \in {Refresh, Analysis, AlertsBtn, SettingsBtn, SymbolsBtn, StopBtn}
    [] state = "SETTINGS" ->
         text \in {OptTimezone, OptFrequency, OptIndicators, OptNotifications,
                   OptRisk, OptSymbols, Back}
    [] state = "ALERTS" ->
         text \in {NewAlert, Back} \/ StartsWith(text, DeletePrefix)
    [] state = "SET_ALERT_TYPE" -> text \in {Above, Below, Back}
    [] OTHER -> TRUE

\* The inputs the table calls valid in the free-text states.
TableValid(state, text) ==
  CASE state = "SYMBOL_SELECTION" -> ValidSymbols(CommaList(text)) # <<>>
    [] state = "SET_ALERT_PRICE" -> ParseFloat(text) # <<>>
    [] state = "SET_TIMEZONE" -> WordStr(text) \in KnownTimezones
    [] state = "SET_UPDATE_FREQ" ->
         ParseInt(text) # <<>> /\ 15 <= ParseInt(text)[1] /\ ParseInt(text)[1] <= 1440
    [] state = "SET_INDICATORS" ->
         \A i \in 1..Len(CommaList(text)) :
           UpperTok(WordStr(CommaList(text)[i])) \in {"RSI", "ATR", "MACD"}
    [] state = "SET_RISK" -> text \in {<<"Low">>, <<"Medium">>, <<"High">>}
    [] OTHER -> FALSE

\* The table's next state for an event it lists; flag: the alert-setup flag.
TableState(state, text, flag) ==
  CASE state = "MENU" ->
         (CASE text = AlertsBtn -> "ALERTS" [] text = SettingsBtn -> "SETTINGS"
            [] text = SymbolsBtn -> "SYMBOL_SELECTION" [] text = StopBtn -> END
            [] OTHER -> "MENU")
    [] state = "SETTINGS" ->
         (CASE text = OptTimezone -> "SET_TIMEZONE"
            [] text = OptFrequency -> "SET_UPDATE_FREQ"
            [] text = OptIndicators -> "SET_INDICATORS"
            [] text = OptRisk -> "SET_RISK"
            [] text = OptSymbols -> "SYMBOL_SELECTION"
            [] text = Back -> "MENU"
            [] OTHER -> "SETTINGS")
    [] state = "ALERTS" ->
         (CASE text = NewAlert -> "SYMBOL_SELECTION" [] text = Back -> "MENU"
            [] OTHER -> "ALERTS")
    [] state = "SYMBOL_SELECTION" ->
         IF text = Back THEN (IF flag THEN "ALERTS" ELSE "SETTINGS")
         ELSE IF ~TableValid(state, text) THEN state
         ELSE IF flag THEN "SET_ALERT_PRICE" ELSE "MENU"
    [] state = "SET_ALERT_PRICE" ->
         IF text = Back THEN "ALERTS"
         ELSE IF TableValid(state, text) THEN "SET_ALERT_TYPE" ELSE state
    [] state = "SET_ALERT_TYPE" -> IF text = Back THEN "ALERTS" ELSE "MENU"
    [] OTHER ->
         IF text = Back THEN "SETTINGS"
         ELSE IF TableValid(state, text) THEN "MENU" ELSE state

\* The settings store the table gives after the event: the toggle in
\* Settings, the field persisted by a valid input, nothing otherwise.
TableSettings(c, state, text, flag) ==
  LET words == CommaList(text)
      set(f, v) == [settings EXCEPT ![c] = (f :> v) @@ @]
  IN IF text = Back THEN settings
     ELSE IF state = "SETTINGS" /\ text = OptNotifications
       THEN set("notification", ~get_user_settings(c).notification)
     ELSE IF ~TableValid(state, text) THEN settings
     ELSE CASE state = "SYMBOL_SELECTION" /\ ~flag ->
                 set("symbols", ValidSymbols(words))
            [] state = "SET_TIMEZONE" -> set("timezone", text[1])
            [] state = "SET_UPDATE_FREQ" -> set("update_freq", ParseInt(text)[1])
            [] state = "SET_INDICATORS" ->
                 set("indicators",
                     [k \in 1..Len(words) |-> UpperTok(WordStr(words[k]))])
            [] state = "SET_RISK" -> set("risk_appetite", LowerTok(text[1]))
            [] OTHER -> settings

\* The alert lists the table gives after the event: "Delete N" takes out
\* position N of the chat's list, the type choice appends the new alert.
TableAlerts(c, state, text) ==
  IF state = "ALERTS" /\ StartsWith(text, DeletePrefix)
  THEN LET n == ParseInt(SubSeq(text, Len(DeletePrefix) + 1, Len(text))) IN
       IF n # <<>> /\ 1 <= n[1] /\ n[1] <= Len(alerts[c])
       THEN [alerts EXCEPT ![c] = Without(@, n[1])] ELSE alerts
  ELSE IF state = "SET_ALERT_TYPE" /\ text \in {Above, Below}
  THEN [alerts EXCEPT ![c] = Append(@, nAlerts + 1)]
  ELSE alerts

\* C7: every message that the table lists for the state it is handled in
\* leads to the table's next state and makes the table's store mutation
\* (settings, alert lists, alert-setup flag and stash, subscription); a
\* conversation begins in Menu.
C7_TransitionTable ==
  [][\A c \in Chats :
       /\ conv[c] = END /\ conv'[c] # END => conv'[c] = "MENU"
       /\ ev'.chat = c /\ ~IsCommand(ev'.text) /\ TableLists(conv[c], ev'.text) =>
            LET state == conv[c]
                text == ev'.text
                flag == AlertSetup(c)
            IN /\ conv'[c] = TableState(state, text, flag)
               /\ settings' = TableSettings(c, state, text, flag)
               /\ alerts' = TableAlerts(c, state, text)
               /\ Range(chat_ids') = IF state = "MENU" /\ text = StopBtn
                                     THEN Range(chat_ids) \ {c} ELSE Range(chat_ids)
               /\ state = "ALERTS" /\ text = NewAlert => AlertSetup(c)'
               /\ state = "SET_ALERT_TYPE" /\ text \in {Above, Below} =>
                    /\ ~AlertSetup(c)'
                    /\ obj'[nAlerts'].symbol = user_data[c]["alert_symbol"]
                    /\ obj'[nAlerts'].price = user_data[c]["alert_price"]
               /\ state = "SYMBOL_SELECTION" /\ flag /\ TableLists(state, text)
                    /\ text # Back /\ TableValid(state, text) =>
                    user_data'[c]["alert_symbol"] = ValidSymbols(CommaList(text))[1]
               /\ state = "SET_ALERT_PRICE" /\ text # Back /\ TableValid(state, text) =>
                    user_data'[c]["alert_price"] = ParseFloat(text)[1]]_vars

\* The dialog has been through the alert flow and the frequency setting, and
\* has just left the symbol selection of a new alert by "Back".
C7_Witness ==
  \E c \in Chats :
    /\ ev = Msg(c, Back)
    /\ conv[c] = "ALERTS"
    /\ AlertSetup(c)
    /\ Len(alerts[c]) >= 1
    /\ Len(jobs) >= 2
    /\ get_user_settings(c).notification = FALSE

\* C8: in SetUpdateFreq, an input other than "Back" that is no integer in
\* 15..1440 keeps the dialog in SetUpdateFreq and leaves the settings and
\* the jobs as they are; a valid v makes v the chat's update_freq and moves
\* to Menu.
C8_FrequencyDialog ==
  [][\A c \in Chats :
       Handles(c, "SET_UPDATE_FREQ") /\ ev'.text # Back =>
         LET v == ParseInt(ev'.text) IN
         IF v # <<>> /\ 15 <= v[1] /\ v[1] <= 1440
         THEN /\ "update_freq" \in DOMAIN settings'[c]
              /\ settings'[c]["update_freq"] = v[1]
              /\ get_user_settings(c)'.update_freq = v[1]
              /\ conv'[c] = "MENU"
         ELSE /\ conv'[c] = "SET_UPDATE_FREQ"
              /\ settings' = settings
              /\ jobs' = jobs]_vars

\* The chat has set 15, was refused 14, and has just set 1440.
C8_Witness ==
  \E c \in Chats :
    /\ ev = Msg(c, <<"1", "4", "4", "0">>)
    /\ conv[c] = "MENU"
    /\ get_user_settings(c).update_freq = 1440
    /\ jobs = <<MainInterval, 15 * 60, 1440 * 60>>

\* C9: the jobs scheduled by frequency changes are at most one for each chat
\* that has changed its frequency.
C9_OneJobPerChat ==
  Len(jobs) - 1 <= Cardinality({c \in Chats : "update_freq" \in DOMAIN settings[c]})

\* Some values of setting f.
SampleValues(f) ==
  CASE f = "update_freq" -> {15, 30, 1440}
    [] f = "notification" -> {TRUE, FALSE}
    [] f = "indicators" -> {<<"MACD">>, <<"RSI", "ATR", "MACD">>}
    [] f = "symbols" -> {<<"GBP/USD">>, <<"EUR/USD", "GBP/USD">>}
    [] OTHER -> {"UTC", "Asia/Tokyo", "high"}

\* The effective record of chat c in settings store st.
Effective(st, c) == st[c] @@ default_settings

\* C10: a chat without overrides has exactly the default record; in every
\* reachable store, update_setting(c, f, v) gives c's effective record f = v,
\* keeps its other fields, adds only f to its override record and leaves the
\* other chats' records alone; the handlers change the store in no other
\* way, so that an override record holds only fields that were set.
C10_DefaultsAndOverrides ==
  /\ [](\A c \in Chats :
          /\ settings[c] = EmptyDict =>
               get_user_settings(c) =
                 [timezone |-> "UTC", update_freq |-> 30,
                  indicators |-> <<"RSI", "ATR", "MACD">>, notification |-> TRUE,
                  risk_appetite |-> "medium", symbols |-> <<"EUR/USD">>]
          /\ get_user_settings(c) = Effective(settings, c)
          /\ \A f \in SettingFields : \A v \in SampleValues(f) :
               LET st == update_setting(c, f, v) IN
               /\ Effective(st, c)[f] = v
               /\ \A g \in SettingFields \ {f} :
                    Effective(st, c)[g] = Effective(settings, c)[g]
               /\ DOMAIN st[c] = DOMAIN settings[c] \cup {f}
               /\ \A d \in Chats \ {c} : st[d] = settings[d])
  /\ [][settings' # settings =>
          \E c \in Chats : \E f \in DOMAIN settings'[c] :
            /\ ev'.chat = c
            /\ f \in SettingFields
            /\ settings' = update_setting(c, f, settings'[c][f])]_vars

\* A chat has overridden some fields and not others, and its effective
\* record mixes them with the defaults.
C10_Witness ==
  \E c \in Chats :
    /\ DOMAIN settings[c] = {"risk_appetite", "notification", "indicators"}
    /\ get_user_settings(c) =
         [timezone |-> "UTC", update_freq |-> 30, indicators |-> <<"MACD">>,
          notification |-> FALSE, risk_appetite |-> "high",
          symbols |-> <<"EUR/USD">>]

\* C11: from empty stores, after any sequence of dialog events every chat's
\* effective settings have 15 <= update_freq <= 1440, a non-empty list of
\* indicators all among RSI, ATR, MACD, a risk appetite among low, medium,
\* high, and a non-empty list of known symbols.
C11_SettingsWellFormed ==
  \A c \in Chats :
    LET e == get_user_settings(c) IN
    /\ 15 <= e.update_freq /\ e.update_freq <= 1440
    /\ Len(e.indicators) >= 1
    /\ \A i \in 1..Len(e.indicators) : e.indicators[i] \in {"RSI", "ATR", "MACD"}
    /\ e.risk_appetite \in {"low", "medium", "high"}
    /\ Len(e.symbols) >= 1
    /\ \A i \in 1..Len(e.symbols) : e.symbols[i] \in FOREX_SYMBOLS

\* A chat has typed in all four validated settings.
C11_Witness ==
  \E c \in Chats :
    /\ {"update_freq", "indicators", "risk_appetite", "symbols"} \subseteq DOMAIN settings[c]
    /\ settings[c]["update_freq"] = 1440
    /\ settings[c]["indicators"] = <<"MACD">>

\* The known symbols an input holds, taken case-sensitively.
KnownIn(text) ==
  CASE text = UpperInput -> <<"EUR/USD", "GBP/USD">>
    [] OTHER -> <<>>

\* What SymbolSelection does with an input whose known symbols are `valid`:
\* none re-prompts and changes nothing; otherwise the unknown tokens are
\* dropped and the list is the subscription (or its first symbol the stash
\* of the alert being set up).
SymbolStep(c, valid) ==
  IF valid = <<>>
  THEN /\ conv'[c] = "SYMBOL_SELECTION"
       /\ settings' = settings
       /\ user_data' = user_data
  ELSE IF AlertSetup(c)
  THEN /\ conv'[c] = "SET_ALERT_PRICE"
       /\ "alert_symbol" \in DOMAIN user_data'[c]
       /\ user_data'[c]["alert_symbol"] = valid[1]
       /\ settings' = settings
  ELSE /\ conv'[c] = "MENU"
       /\ "symbols" \in DOMAIN settings'[c]
       /\ settings'[c]["symbols"] = valid

\* C12 (as the code has it): the input is split on commas and trimmed and
\* matched case-sensitively: "EUR/USD, bogus, GBP/USD" yields EUR/USD and
\* GBP/USD, the unknown token dropped without a re-prompt; "eur/usd, bogus,
\* gbp/usd" and "bogus" hold no known symbol, re-prompt and change nothing.
C12_SymbolValidation ==
  [][\A c \in Chats :
       Handles(c, "SYMBOL_SELECTION") /\ ev'.text # Back =>
         SymbolStep(c, KnownIn(ev'.text))]_vars

\* The upper-case input has just become the chat's subscription.
C12_Witness ==
  \E c \in Chats :
    /\ ev = Msg(c, UpperInput)
    /\ conv[c] = "MENU"
    /\ get_user_settings(c).symbols = <<"EUR/USD", "GBP/USD">>

\* C12 (as stated): the input "eur/usd, bogus, gbp/usd" yields the valid
\* symbols EUR/USD and GBP/USD.
C12_LowerCaseAccepted ==
  [][\A c \in Chats :
       Handles(c, "SYMBOL_SELECTION") /\ ev'.text = LowerInput =>
         SymbolStep(c, <<"EUR/USD", "GBP/USD">>)]_vars

\* The cache holds an entry for key y: a snapshot and its time of update.
HasEntry(y) == y \in DOMAIN price_cache.data /\ y \in DOMAIN price_cache.last_updated

\* The age of the entry for y.
Age(y) == now - price_cache.last_updated[y]

\* The step is a read of a symbol.
Read == cstep'.op = "get" /\ cstep'.at = now /\ now' = now

\* C13: a read returns the stored snapshot without calling the provider if
\* and only if an entry exists and is less than 5 minutes old; an entry of
\* age 0 is returned, an entry of age 5 minutes or more is refetched; no
\* step deletes an entry, and a read whose fetch fails or is empty leaves
\* the snapshots and their times unchanged.
C13_CacheValidity ==
  [][/\ DOMAIN price_cache.data \subseteq DOMAIN price_cache'.data
     /\ DOMAIN price_cache.last_updated \subseteq DOMAIN price_cache'.last_updated
     /\ (Loaded /\ Read) =>
          LET y == Yahoo(cstep'.symbol)
              fresh == HasEntry(y) /\ Age(y) < CACHE_EXPIRY_MINUTES
          IN  /\ ~cstep'.called <=> fresh
              /\ fresh => /\ cstep'.ret = <<price_cache.data[y]>>
                          /\ price_cache' = price_cache
              /\ (HasEntry(y) /\ Age(y) = 0) => ~cstep'.called
              /\ (HasEntry(y) /\ Age(y) >= CACHE_EXPIRY_MINUTES) => cstep'.called
              /\ (cstep'.called /\ cstep'.kind # "data") =>
                   /\ price_cache' = price_cache
                   /\ cstep'.ret = <<>>]_vars

\* A read found an entry one minute short of the expiry and returned it,
\* and the other symbol's entry, which has expired, is still stored.
C13_Witness ==
  /\ cstep.op = "get" /\ ~cstep.called /\ cstep.at = now
  /\ Age(Yahoo(cstep.symbol)) = CACHE_EXPIRY_MINUTES - 1
  /\ \E y \in CacheKeys : HasEntry(y) /\ Age(y) >= CACHE_EXPIRY_MINUTES

\* The fields of a fully populated snapshot.
SnapshotFields ==
  {"symbol", "current_price", "open", "weekly_high", "weekly_low", "daily_high",
   "daily_low", "h4_high", "h4_low", "h1_high", "h1_low", "timestamp"}
  \cup IndicatorFields

\* C14: every snapshot stored in the cache is fully populated: it has the
\* price, the open, the high and low of the four windows, the five
\* indicator values and the timestamp.
C14_NoPartialSnapshots ==
  \A y \in DOMAIN price_cache.data : DOMAIN price_cache.data[y] = SnapshotFields

\* The file is missing, is not JSON, or lacks one of its two keys.
BadFile ==
  \/ cache_file.kind \in {"missing", "corrupt"}
  \/ cache_file.kind = "dict" /\ DOMAIN cache_file.body # {"data", "last_updated"}

\* C18: when the cache file is missing, is not valid JSON or lacks the
\* 'data' or the 'last_updated' key, load_from_file does not raise, and
\* after it every symbol is a cache miss.
C18_LoadNeverFatal ==
  (BadFile /\ cstep.op # "new") =>
    /\ cstep.op # "crash"
    /\ cstep.op = "load" =>
         \A y \in CacheKeys : ~(HasEntry(y) /\ Age(y) < CACHE_EXPIRY_MINUTES)

\* The file with the snapshots but without their times has been loaded.
C18_Witness ==
  /\ cstep.op = "load"
  /\ cache_file.kind = "dict" /\ DOMAIN cache_file.body = {"data"}
  /\ price_cache.data # EmptyDict

\* Rule n of the recommendation, from the snapshot and the settings.
Enabled(x) == Has(advice.st.indicators, x)
Support ==
  CHOOSE x \in {advice.pd.h1_low, advice.pd.h4_low} :
    x <= advice.pd.h1_low /\ x <= advice.pd.h4_low
Resistance ==
  CHOOSE x \in {advice.pd.h1_high, advice.pd.h4_high} :
    x >= advice.pd.h1_high /\ x >= advice.pd.h4_high
Factor ==
  CASE advice.st.risk_appetite = "low" -> 6
    [] advice.st.risk_appetite = "medium" -> 10
    [] advice.st.risk_appetite = "high" -> 14
Rule1 ==
  /\ Enabled("RSI") /\ Enabled("ATR")
  /\ Scale * advice.pd.current_price <= Scale * Support - advice.pd.ATR * Factor
  /\ advice.pd.RSI < 30
Rule2 ==
  /\ Enabled("RSI") /\ Enabled("ATR")
  /\ advice.pd.current_price >= Resistance
  /\ advice.pd.RSI > 70
Rule3 ==
  /\ Enabled("RSI") /\ Enabled("ATR")
  /\ 2 * Scale * advice.pd.current_price <= 2 * Scale * Support - advice.pd.ATR * Factor

\* C15: the recommendation is the label of the first rule that matches, in
\* the order STRONG BUY, SELL, BUY, then BULLISH or BEARISH from the MACD
\* if the MACD is enabled, else NEUTRAL; when rule 1 matches it is STRONG
\* BUY whatever the MACD says.
C15_RecommendationPriority ==
  advice.out # <<>> =>
    advice.out[1][1] =
      IF Rule1 THEN "STRONG BUY"
      ELSE IF Rule2 THEN "SELL"
      ELSE IF Rule3 THEN "BUY"
      ELSE IF Enabled("MACD")
      THEN IF advice.pd.MACD > advice.pd.MACD_Signal THEN "BULLISH" ELSE "BEARISH"
      ELSE "NEUTRAL"

\* Rule 1 matched with a bullish MACD enabled, and the recommendation was
\* made.
C15_Witness ==
  /\ advice.out # <<>>
  /\ Rule1 /\ Enabled("MACD") /\ advice.pd.MACD > advice.pd.MACD_Signal
  /\ advice.out[1][1] = "STRONG BUY"

\* The index that the "Delete N" just handled passes to remove_alert.
DeleteIndex ==
  LET words == SplitWs(ev'.text) IN ParseInt(words[Len(words)])[1] - 1

\* C16: remove_alert with an index outside 0..len-1 (a negative index and
\* an empty list included) deletes nothing and changes no chat's list;
\* with an index in range it takes the alert at that position out of the
\* chat's list and keeps the others in order, their fields unchanged, and
\* leaves the other chats' lists alone.
C16_RemoveByIndex ==
  [][\A c \in Chats :
       DeletesByIndex(c) =>
         /\ obj' = obj
         /\ \A d \in Chats \ {c} : alerts'[d] = alerts[d]
         /\ IF DeleteIndex \in 0..(Len(alerts[c]) - 1)
            THEN alerts'[c] = Without(alerts[c], DeleteIndex + 1)
            ELSE alerts'[c] = alerts[c]]_vars

\* "Delete 0", the index -1, has been handled for a chat that has deleted
\* one of its two alerts and keeps the other.
C16_Witness ==
  /\ ev = Msg(1, DeletePrefix \o <<"0">>)
  /\ nAlerts - Len(alerts[2]) >= 2
  /\ Len(alerts[1]) = 1

\* The step is chat c's stop: /stop in any state, or "Stop" in the menu.
Stops(c) ==
  /\ ev'.chat = c
  /\ conv[c] # END
  /\ ev'.text = StopCmd \/ (conv[c] = "MENU" /\ ev'.text = StopBtn)

\* C17: a stop takes the chat out of the subscriber list and ends its
\* session; it changes no settings and no alerts, and no other chat's
\* subscription; a broadcast that a job begins goes to subscribers only,
\* so that none begun after the stop reaches the chat; the subscriber
\* list never holds a chat twice.
C17_Stop ==
  /\ [](\A i, j \in 1..Len(chat_ids) : i # j => chat_ids[i] # chat_ids[j])
  /\ [][\A c \in Chats :
          Stops(c) =>
            /\ Range(chat_ids') = Range(chat_ids) \ {c}
            /\ conv'[c] = END
            /\ settings' = settings /\ alerts' = alerts /\ obj' = obj]_vars
  /\ [][\A j \in 1..MaxJobs :
          (run[j].pc = "idle" /\ run'[j].pc # "idle") =>
            {run'[j].cid} \cup Range(run'[j].rest) \subseteq Range(chat_ids)]_vars

\* Chat 1, which has an alert, has stopped; chat 2 is still subscribed.
C17_Witness ==
  /\ ev = Msg(1, StopCmd)
  /\ conv[1] = END
  /\ chat_ids = <<2>>
  /\ Len(alerts[1]) >= 1

\* C19: whenever a chat's dialog state is Menu its session scratch is
\* reset: the alert-setup flag is not set and no alert symbol or price is
\* pending, so that a symbol entered after "Symbols" is a change of the
\* subscription.
C19_ResetAtMenu ==
  \A c \in Chats :
    conv[c] = "MENU" =>
      /\ ~AlertSetup(c)
      /\ DOMAIN user_data[c] \cap {"alert_symbol", "alert_price"} = {}

\* C20: a matching pass is all or nothing: it never ends with some of
\* the alerts that matched its observation notified and inactive and
\* others of them still listed, active and not notified.
C20_AllOrNothing ==
  \A r \in RunIds :
    run[r].pc = "menu" /\ run[r].last # "none" =>
      ~ /\ \E a \in run[r].start : a \in run[r].fired /\ ~obj[a].active
        /\ \E b \in run[r].start \cap Listed :
             b \notin run[r].fired /\ obj[b].active /\ Notified(b, 0)

\* Task k is inside the critical section of store s.
Inside(k, s) ==
  /\ StoreOf(task[k].write) = s
  /\ \/ task[k].pc \in {"dump", "release"}
     \/ task[k].pc = "modify" /\ task[k].write = "update"

\* C21: at most one writer is inside a store's critical section at a time,
\* and the section covers the whole write, so that the document on disk
\* is never a mix of two writers' states: when a task persists a store no
\* other task is in the middle of a change of that store that it has not
\* yet persisted.
C21_WriterExclusion ==
  /\ \A s \in Stores : \A k, t \in Tasks : Inside(k, s) /\ Inside(t, s) => k = t
  /\ \A k \in Tasks :
       task[k].pc = "dump" =>
         \A t \in Tasks \ {k} :
           ~(StoreOf(task[t].write) = StoreOf(task[k].write) /\ task[t].dirty)

\* C22: no lock flag is set while the coroutines are suspended: a task
\* that has set a flag clears it before it awaits, also when its write
\* raised.
C22_NoLockWhileSuspended ==
  (\A k \in Tasks : task[k].pc \in Suspended) => \A s \in Stores : ~lock[s]

\* A write has raised and its task awaits again, while the other task is
\* suspended in a send of check_alerts.
C22_Witness ==
  \E k, t \in Tasks :
    /\ task[k].pc = "await" /\ task[k].raised
    /\ task[t].pc = "send"

\* ----------------------------------------------------------------- C23
\* What is left of a pass: the (recipient, symbol) pairs from the symbol
\* loop of recipient cid on, in the order of the loops of lines 464-466.
RECURSIVE Todo(_, _, _)
Todo(cid, syms, rest) ==
  IF syms = <<>>
  THEN IF rest = <<>> THEN <<>>
       ELSE Todo(Head(rest), get_user_settings(Head(rest)).symbols, Tail(rest))
  ELSE <<<<cid, Head(syms)>>>> \o Todo(cid, Tail(syms), rest)

\* The first pair of todo whose symbol the provider answers, 0 if none.
FirstLive(todo) ==
  IF \A i \in 1..Len(todo) : todo[i][2] \in Down THEN 0
  ELSE CHOOSE i \in 1..Len(todo) :
         /\ todo[i][2] \notin Down
         /\ \A k \in 1..(i - 1) : todo[k][2] \in Down

\* Coroutine state `new` is the pass at the first answered pair of todo
\* with all the later pairs still ahead, or the pass is over if there is
\* no such pair.
Resumes(new, todo) ==
  LET i == FirstLive(todo) IN
  IF i = 0 THEN new.pc = "idle"
  ELSE /\ new.pc \in {"send", "menu"}
       /\ new.cid = todo[i][1]
       /\ new.symbol = todo[i][2]
       /\ Todo(new.cid, new.syms, new.rest) = SubSeq(todo, i + 1, Len(todo))

\* C23: during an outage, each step of a pass goes on exactly to the next
\* (recipient, symbol) whose fetch returns data: a symbol without data is
\* skipped once, a send that raised (the alert notification, or the
\* analysis message) leaves every later symbol and recipient ahead, and
\* the job that ran the pass is still in the queue for its next tick.
C23_FailureIsolation ==
  [][\A r \in RunIds :
       run'[r] # run[r] =>
         /\ run[r].pc = "menu" =>
              Resumes(run'[r], Todo(run[r].cid, run[r].syms, run[r].rest))
         /\ run[r].pc = "send" =>
              /\ run'[r].pc \in {"send", "menu"}
              /\ run'[r].cid = run[r].cid /\ run'[r].symbol = run[r].symbol
              /\ run'[r].syms = run[r].syms /\ run'[r].rest = run[r].rest
         /\ (run[r].pc = "idle" /\ r # 0) =>
              \E rs \in Orders(Range(chat_ids)) :
                 Resumes(run'[r], Todo(Head(rs), get_user_settings(Head(rs)).symbols,
                                       Tail(rs)))
         /\ r # 0 => jobs' = jobs /\ r \in 1..Len(jobs)]_vars

\* A job's pass skipped EUR/USD for chat 1, met a failure on GBP/USD (the
\* notification raised, or the save) and again on chat 2's GBP/USD, whose
\* analysis message it is now sending.
C23_Witness ==
  \E r \in RunIds \ {0} :
    /\ world = "no EUR/USD"
    /\ run[r].pc = "menu" /\ run[r].cid = 2 /\ run[r].last = "aborted"
    /\ run[r].symbol = "GBP/USD"

\* ----------------------------------------------------------------- C24
\* The keyboard that shows the options of a dialog state: the one sent
\* with the reply that enters the state.
KeyboardOf(state) ==
  CASE state = "ALERTS" -> "alerts"
    [] state = "SETTINGS" -> "settings"
    [] state = "SYMBOL_SELECTION" -> "symbols"
    [] state = "SET_ALERT_PRICE" -> "back"
    [] state = "SET_ALERT_TYPE" -> "types"
    [] state = "SET_TIMEZONE" -> "timezones"
    [] state = "SET_UPDATE_FREQ" -> "freqs"
    [] state = "SET_INDICATORS" -> "indicators"
    [] state = "SET_RISK" -> "risks"
    [] OTHER -> "menu"

Prompting ==
  {"ALERTS", "SETTINGS", "SYMBOL_SELECTION", "SET_ALERT_PRICE", "SET_ALERT_TYPE",
   "SET_TIMEZONE", "SET_UPDATE_FREQ", "SET_INDICATORS", "SET_RISK"}

\* C24: a handler of one of the nine prompting states that returns its
\* own state has sent a reply carrying that state's option keyboard.
C24_RePrompt ==
  [][\A c \in Chats :
       (ev'.chat = c /\ conv[c] \in Prompting /\ conv'[c] = conv[c]) =>
         \E i \in 1..Len(reply') : reply'[i].keyboard = KeyboardOf(conv[c])]_vars

\* ----------------------------------------------------------------- C25
\* The number N of a "Delete N" text: <<N>>, or <<>> if it is no number.
DeleteNumber(text) == ParseInt(SplitWs(text)[Len(SplitWs(text))])

\* C25: in Alerts, "Delete N" with 1 <= N <= len removes the alert at
\* index N-1, sends the list again and stays in Alerts; with any other N
\* it removes nothing, stays in Alerts and its replies report an error
\* (a reply that is not the list and not a confirmation).
C25_DeleteN ==
  [][\A c \in Chats :
       (ev'.chat = c /\ conv[c] = "ALERTS" /\ StartsWith(ev'.text, DeletePrefix)) =>
         LET n == DeleteNumber(ev'.text)
             list == alerts[c]
         IN /\ conv'[c] = "ALERTS"
            /\ IF n # <<>> /\ 1 <= n[1] /\ n[1] <= Len(list)
               THEN /\ alerts'[c] = SubSeq(list, 1, n[1] - 1)
                                    \o SubSeq(list, n[1] + 1, Len(list))
                    /\ \E i \in 1..Len(reply') :
                         /\ reply'[i].keyboard = "alerts"
                         /\ reply'[i].rows = Len(list) - 1
               ELSE /\ alerts' = alerts
                    /\ \E i \in 1..Len(reply') :
                         reply'[i].text = "Invalid selection"]_vars

\* ----------------------------------------------------------------- C26
\* C26: a matching pass persists the alert store once, after its last
\* alert, and not once per chat: a pass that is about to send a
\* notification has not persisted the store yet.  (check_alerts goes from
\* the list of chat number ki to the next one only through save_alerts:
\* a pass suspended at chat number ki has saved the store ki - 1 times.)
C26_PersistOnce ==
  [][\A r \in RunIds :
       (run'[r] # run[r] /\ run'[r].pc = "send") =>
         run'[r].ki = IF run[r].pc = "send" THEN run[r].ki ELSE 1]_vars

\* ----------------------------------------------------------------- C27
\* The number of "Back" messages that a dialog state is away from Menu.
BackDistance(state) ==
  CASE state = "MENU" -> 0
    [] state \in {"ALERTS", "SETTINGS"} -> 1
    [] OTHER -> 2

\* C27: in every state of a conversation the handler of the state takes
\* the chat's next message, and a "Back" brings the chat one step nearer
\* to Menu (from at most two steps away, whatever the scratch fields hold)
\* and leaves the settings store and the alert store as they are.
C27_NoDeadEnd ==
  /\ [](\A c \in Talkers : conv[c] \in Prompting => Free)
  /\ [][\A c \in Chats :
          (ev'.chat = c /\ ev'.text = Back /\ conv[c] # END) =>
            /\ BackDistance(conv[c]) <= 2
            /\ BackDistance(conv'[c]) =
                 IF BackDistance(conv[c]) = 0 THEN 0 ELSE BackDistance(conv[c]) - 1
            /\ settings' = settings
            /\ alertKeys' = alertKeys /\ alerts' = alerts /\ obj' = obj]_vars

\* A chat that began a new alert went back from the symbol selection to
\* the alert list and from there to Menu, the alert-setup flag still set.
C27_Witness ==
  \E c \in Chats :
    /\ ev = Msg(c, Back)
    /\ conv[c] = "MENU"
    /\ AlertSetup(c)
    /\ reply = <<BackToMenu>>

\* ----------------------------------------------------------------- C28
\* C28: for a snapshot whose price is not below the support and whose ATR
\* is positive, the recommendation is neither STRONG BUY nor BUY, whatever
\* the risk appetite and the indicators; and it is SELL only if the price
\* equals the resistance.
C28_BuyUnreachable ==
  advice.out # <<>> =>
    /\ (advice.pd.ATR > 0 /\ advice.pd.current_price >= Support) =>
         advice.out[1][1] \notin {"STRONG BUY", "BUY"}
    /\ advice.out[1][1] = "SELL" => advice.pd.current_price = Resistance

\* The recommendation was made for an oversold snapshot at its support
\* with a positive ATR, RSI and ATR enabled: the nearest case to a buy.
C28_Witness ==
  /\ advice.out # <<>>
  /\ Enabled("RSI") /\ Enabled("ATR")
  /\ advice.pd.ATR > 0 /\ advice.pd.RSI < 30
  /\ advice.pd.current_price = Support
  /\ advice.out[1][1] \in {"NEUTRAL", "BULLISH", "BEARISH"}

=========================================================================
